---- MODULE Spec2Model ----
(***************************************************************************)
(* rankings-core: the Swiss pairing generator (src/pairings/swiss.ts) and  *)
(* the standings facade (src/standings/index.ts) with the                  *)
(* single-elimination standings engine, as state machines.                 *)
(*                                                                         *)
(* Player ids are the capital letters "A", "B", ...; player p (a number)   *)
(* is the p-th row of the standings list and carries the id whose char     *)
(* code is 64 + p.  Strings are sequences of char codes.                   *)
(***************************************************************************)
EXTENDS Integers, Sequences, FiniteSets, TLC

(* ---------------- bounds of the explored inputs ---------------- *)
MaxPlayers == 5
MaxPoints == 1
MaxHistory == 3
MaxRetired == 1
StressPlayers == 6
SmallBudget == 4
MaxDownfloats == 4
MaxCompetitors == 3
MaxRound == 2
MaxRecords == 2
MaxPenalty == 1

(* ---------------- program constants ---------------- *)
DefaultMaxBacktrack == 2000
DefaultProtectTopN == 0
NegativeInfinity == -1
None == 0

DefaultEventId == <<114, 97, 110, 107, 105, 110, 103, 115, 45, 99, 111, 114, 101>>
OtherEventId == <<88>>
PairingTag == <<58, 58, 112, 97, 105, 114, 105, 110, 103, 58, 58>>
PairSeparator == <<58, 58>>
SingleElimTag == <<58, 58, 115, 105, 110, 103, 108, 101, 45, 101, 108, 105, 109, 58, 58>>

\* enum MatchResult
WIN == "W"
LOSS == "L"
DRAW == "D"
BYE == "BYE"
FORFEIT_WIN == "FORFEIT_W"
FORFEIT_LOSS == "FORFEIT_L"

VARIABLES
  pc,               \* position of the call: "call", "groups", "done"
  standings,        \* input: sequence of rows [playerId, matchPoints, retired]
  history,          \* input: set of records [playerId, opponentId] (opponentId = None: bye)
  eventId,          \* option eventId (a string)
  avoidRematches,   \* option avoidRematches
  protectTopN,      \* option protectTopN
  maxBacktrack,     \* option maxBacktrack
  unpaired,         \* Set<PlayerID> of players not yet paired
  playedWith,       \* playedWith[p]: opponents p has met
  byesTaken,        \* players with a bye record
  downfloatCounts,  \* downfloatCounts[p]
  bye,              \* the bye recipient, None when there is none
  pairings,         \* sequence of [a, b]
  rematchesUsed,    \* sequence of [a, b]
  work,             \* the working groups work[gi..]: the group being processed and those below it
  lastGroup,        \* history variable: what the latest iteration of the group loop saw and did
  cleanupPairs,     \* history variable: the pairings made by the final greedy cleanup
  movedDown,        \* history variable: per player, the downfloat(gi, pid) calls made so far
  spc,              \* position of the computeStandings call: "idle", "call", "done"
  req,              \* the ComputeStandingsRequest: [mode, matches, options]
  rows,             \* the rows computeStandings returned
  hpc,              \* position of a helper call: "idle", "call"/"done", "merge"/"merged", ...
  input,            \* the arguments of the helper call
  out,              \* what the helper call returned (or the exception it threw)
  bracket,          \* the single-elimination Bracket being played: matches by id, or << >>
  calls             \* history variable: per match id, the applyResult calls that returned

vars == <<pc, standings, history, eventId, avoidRematches, protectTopN, maxBacktrack,
          unpaired, playedWith, byesTaken, downfloatCounts, bye, pairings,
          rematchesUsed, work, lastGroup, cleanupPairs, movedDown, spc, req, rows,
          hpc, input, out, bracket, calls>>

standingsVars == <<spc, req, rows>>

helperVars == <<hpc, input, out>>

bracketVars == <<bracket, calls>>

pairingVars == <<pc, standings, history, eventId, avoidRematches, protectTopN, maxBacktrack,
                 unpaired, playedWith, byesTaken, downfloatCounts, bye, pairings,
                 rematchesUsed, work, lastGroup, cleanupPairs, movedDown>>

(* ---------------- small utilities ---------------- *)

Min(a, b) == IF a <= b THEN a ELSE b

Abs(x) == IF x < 0 THEN -x ELSE x

Range(s) == {s[i] : i \in 1..Len(s)}

\* Array.prototype.indexOf, 0-based, -1 when absent
IndexOf(s, x) ==
  LET hits == {i \in 1..Len(s) : s[i] = x}
  IN IF hits = {} THEN -1 ELSE (CHOOSE i \in hits : \A j \in hits : i <= j) - 1

RECURSIVE insertInto(_, _, _, _)
\* x goes right after the last element of the sorted prefix that is not greater than x
insertInto(sorted, x, k, less) ==
  IF k = 0 \/ ~less[<<x, sorted[k]>>]
  THEN SubSeq(sorted, 1, k) \o <<x>> \o SubSeq(sorted, k + 1, Len(sorted))
  ELSE insertInto(sorted, x, k - 1, less)

RECURSIVE sortFrom(_, _, _, _)
sortFrom(s, i, acc, less) ==
  IF i > Len(s) THEN acc ELSE sortFrom(s, i + 1, insertInto(acc, s[i], Len(acc), less), less)

\* the pairs a comparator is asked about when s is sorted
Pairs(s) == Range(s) \X Range(s)

\* Array.prototype.sort with a consistent comparator: the stable ascending order;
\* less[<<x, y>>] tells whether the comparator returns a negative number for (x, y)
sortBy(s, less) == sortFrom(s, 1, << >>, less)

(* ---------------- fnv1a: the 32-bit hash, kept as two 16-bit limbs <<hi, lo>> ---------------- *)

RECURSIVE XorBits(_, _, _)
XorBits(a, b, k) ==
  IF k = 0 THEN 0
  ELSE (((a % 2) + (b % 2)) % 2) + 2 * XorBits(a \div 2, b \div 2, k - 1)

FnvOffsetHi == 33052
FnvOffsetLo == 40389
FnvPrimeLow == 403

\* h ^= c; h = (h * 16777619) mod 2^32, with 16777619 = 2^24 + 403
FnvStep(h, c) ==
  LET lo1 == (h[2] \div 256) * 256 + XorBits(h[2] % 256, c, 8)
      p == lo1 * FnvPrimeLow
  IN << (h[1] * FnvPrimeLow + (p \div 65536) + (lo1 % 256) * 256) % 65536, p % 65536 >>

RECURSIVE FnvFold(_, _, _)
\* the loop over the characters; h is a pair of limbs at every step, and reading
\* its length here has each step's value computed before the next step starts
FnvFold(h, str, i) ==
  IF i > Len(str) \/ Len(h) # 2 THEN h ELSE FnvFold(FnvStep(h, str[i]), str, i + 1)

fnv1a(str) == FnvFold(<<FnvOffsetHi, FnvOffsetLo>>, str, 1)

\* a - b < 0 for two hash values
HashLess(x, y) == x[1] < y[1] \/ (x[1] = y[1] /\ x[2] < y[2])

Name(p) == <<64 + p>>

seedKey(p) == fnv1a(eventId \o PairingTag \o Name(p))

pairSeedKey(p) == fnv1a(eventId \o PairingTag \o Name(p.a) \o PairSeparator \o Name(p.b))

(* ---------------- computeSingleEliminationStandings ---------------- *)

RECURSIVE keysFrom(_, _, _)
keysFrom(ms, i, acc) ==
  IF i > Len(ms) THEN acc
  ELSE keysFrom(ms, i + 1,
                IF ms[i].playerId \in Range(acc) THEN acc ELSE Append(acc, ms[i].playerId))

\* Object.keys(byPlayer): the player ids in the order of their first record
byPlayerKeys(ms) == keysFrom(ms, 1, << >>)

\* byPlayer[pid], sorted by round and then by match id
byPlayer(ms, pid) ==
  LET own == SelectSeq(ms, LAMBDA m : m.playerId = pid)
  IN sortBy(own, [p \in Pairs(own) |->
                    p[1].round < p[2].round \/ (p[1].round = p[2].round /\ p[1].id < p[2].id)])

RECURSIVE maxRoundFrom(_, _, _)
maxRoundFrom(ms, i, acc) ==
  IF i > Len(ms) THEN acc
  ELSE maxRoundFrom(ms, i + 1, IF ms[i].round > acc THEN ms[i].round ELSE acc)

\* the deepest round in the bracket
maxRound(ms) == maxRoundFrom(ms, 1, 0)

RECURSIVE sumPenalties(_, _)
sumPenalties(ms, i) ==
  IF i > Len(ms) THEN 0 ELSE ms[i].penalties + sumPenalties(ms, i + 1)

\* the row of a player whose last record is a win, whatever its round
rowOfAnyWin(allMatches, pid) ==
  LET ms == byPlayer(allMatches, pid)
      last == ms[Len(ms)]
      wins == Len(SelectSeq(ms, LAMBDA m : m.result = WIN \/ m.result = FORFEIT_WIN))
      losses == Len(SelectSeq(ms, LAMBDA m : m.result = LOSS \/ m.result = FORFEIT_LOSS))
      faced == SelectSeq(ms, LAMBDA m : m.opponentId # None)
      top == maxRound(allMatches)
  IN [rank |-> 0,
      playerId |-> pid,
      matchPoints |-> wins,
      wins |-> wins,
      losses |-> losses,
      roundsPlayed |-> Len(ms),
      penalties |-> sumPenalties(ms, 1),
      opponents |-> [i \in 1..Len(faced) |-> faced[i].opponentId],
      eliminationRound |->
        IF last.result = WIN \/ last.result = FORFEIT_WIN THEN top + 1 ELSE last.round]

\* the row pushed for one player (the percentage and game fields, constant or
\* plain sums that no comparison reads, are left out)
rowOf(allMatches, pid) ==
  LET ms == byPlayer(allMatches, pid)
      last == ms[Len(ms)]
      wins == Len(SelectSeq(ms, LAMBDA m : m.result = WIN \/ m.result = FORFEIT_WIN))
      losses == Len(SelectSeq(ms, LAMBDA m : m.result = LOSS \/ m.result = FORFEIT_LOSS))
      faced == SelectSeq(ms, LAMBDA m : m.opponentId # None)
      top == maxRound(allMatches)
  IN [rank |-> 0,
      playerId |-> pid,
      matchPoints |-> wins,
      wins |-> wins,
      losses |-> losses,
      roundsPlayed |-> Len(ms),
      penalties |-> sumPenalties(ms, 1),
      opponents |-> [i \in 1..Len(faced) |-> faced[i].opponentId],
      eliminationRound |->
        IF last.round = top /\ (last.result = WIN \/ last.result = FORFEIT_WIN)
        THEN top + 1 ELSE last.round]

singleElimKey(options, pid) == fnv1a(options.eventId \o SingleElimTag \o Name(pid))

\* the comparator of rows.sort: true when it returns a negative number for (a, b)
rowLess(options, a, b) ==
  LET sa == options.seeding[a.playerId]
      sb == options.seeding[b.playerId]
  IN IF b.eliminationRound # a.eliminationRound THEN b.eliminationRound < a.eliminationRound
     ELSE IF sa # None /\ sb # None /\ sa # sb THEN sa < sb
     ELSE IF a.penalties # b.penalties THEN a.penalties < b.penalties
     ELSE HashLess(singleElimKey(options, a.playerId), singleElimKey(options, b.playerId))

\* the ranks written from the array index counted from zero
assignRankFromZero(sorted) == [i \in 1..Len(sorted) |-> [sorted[i] EXCEPT !.rank = i - 1]]

\* rows.forEach((r, i) => { r.rank = i + 1 })
assignRank(sorted) == [i \in 1..Len(sorted) |-> [sorted[i] EXCEPT !.rank = i]]

computeSingleEliminationStandings(ms, options) ==
  LET keys == byPlayerKeys(ms)
      pushed == [i \in 1..Len(keys) |-> rowOf(ms, keys[i])]
  IN assignRank(sortBy(pushed, [p \in Pairs(pushed) |-> rowLess(options, p[1], p[2])]))

(* ---------------- the Swiss and round-robin standings engines ---------------- *)

\* default points: win 3, draw 1, loss 0, bye 3
pointsOf(result) ==
  IF result \in {WIN, FORFEIT_WIN, BYE} THEN 3 ELSE IF result = DRAW THEN 1 ELSE 0

RECURSIVE sumPoints(_, _)
sumPoints(ms, i) ==
  IF i > Len(ms) THEN 0 ELSE pointsOf(ms[i].result) + sumPoints(ms, i + 1)

ledgerKey(options, pid) == fnv1a(options.eventId \o PairSeparator \o Name(pid))

\* outcomes grouped by competitor, match points accumulated, rows sorted descending by
\* match points with the hash of (event seed, competitor id) as the last key, ranks
\* 1..N in sorted order; the tie-break rates between the two keys order rows only
ledgerStandings(ms, options) ==
  LET keys == byPlayerKeys(ms)
      pushed == [i \in 1..Len(keys) |->
                   LET own == SelectSeq(ms, LAMBDA m : m.playerId = keys[i])
                   IN [rank |-> 0, playerId |-> keys[i], matchPoints |-> sumPoints(own, 1),
                       roundsPlayed |-> Len(own)]]
      less(a, b) == IF a.matchPoints # b.matchPoints THEN a.matchPoints > b.matchPoints
                    ELSE HashLess(ledgerKey(options, a.playerId), ledgerKey(options, b.playerId))
      sorted == sortBy(pushed, [p \in Pairs(pushed) |-> less(p[1], p[2])])
  IN [i \in 1..Len(sorted) |-> [sorted[i] EXCEPT !.rank = i]]

computeSwissStandings(ms, options) == ledgerStandings(ms, options)

computeRoundRobinStandings(ms, options) == ledgerStandings(ms, options)

(* ---------------- computeStandings: the facade ---------------- *)

computeStandings(r) ==
  IF r.mode = "swiss" THEN computeSwissStandings(r.matches, r.options)
  ELSE IF r.mode = "roundrobin" THEN computeRoundRobinStandings(r.matches, r.options)
  ELSE computeSingleEliminationStandings(r.matches, r.options)

(* ---------------- derived views of the input ---------------- *)

AllIds == 1..(IF MaxPlayers > StressPlayers THEN MaxPlayers ELSE StressPlayers)

\* the pool taken without the retired filter
activeStandingsUnfiltered == standings

activeStandings == SelectSeq(standings, LAMBDA s : ~s.retired)

players == [i \in 1..Len(activeStandings) |-> activeStandings[i].playerId]

\* standingsIndex / pos: 0-based index among the active rows
standingsIndex(id) ==
  (CHOOSE i \in 1..Len(activeStandings) : activeStandings[i].playerId = id) - 1

(* ---------------- generateSwissPairings: the search ---------------- *)

pw(played, id) == played[id]

\* candidates.sort(...): adjacency, then fewer downfloats, then seed
candidateLess(ids, dfc, startIdx, x, y) ==
  LET dx == Abs(IndexOf(ids, x) - startIdx)
      dy == Abs(IndexOf(ids, y) - startIdx)
  IN IF dx # dy THEN dx < dy
     ELSE IF dfc[x] # dfc[y] THEN dfc[x] < dfc[y]
     ELSE HashLess(seedKey(x), seedKey(y))

\* the partner filter without the test on used
partnersOfAnyLater(ids, used, played, startIdx, wantRematch) ==
  LET a == ids[startIdx + 1]
  IN SelectSeq(SubSeq(ids, startIdx + 2, Len(ids)),
               LAMBDA b : (b \in pw(played, a)) = wantRematch)

\* partners of ids[startIdx] among the later, unused entries of ids (startIdx is 0-based)
partnersOf(ids, used, played, startIdx, wantRematch) ==
  LET a == ids[startIdx + 1]
  IN SelectSeq(SubSeq(ids, startIdx + 2, Len(ids)),
               LAMBDA b : b \notin used /\ ((b \in pw(played, a)) = wantRematch))

RECURSIVE dfs(_, _, _, _, _, _)
RECURSIVE tryCandidates(_, _, _, _, _, _, _, _)

\* st = [steps, chosen, used]; the result adds ok.  startIdx is 0-based as in the source.
dfs(ids, allowRematches, played, dfc, startIdx, st) ==
  LET st1 == [st EXCEPT !.steps = st.steps + 1]
  IN IF st1.steps > maxBacktrack THEN [ok |-> FALSE, st |-> st1]
     ELSE IF startIdx >= Len(ids) THEN [ok |-> TRUE, st |-> st1]
     ELSE LET a == ids[startIdx + 1]
          IN IF a \in st1.used
             THEN dfs(ids, allowRematches, played, dfc, startIdx + 1, st1)
             ELSE LET clean == partnersOf(ids, st1.used, played, startIdx, FALSE)
                      dirty == partnersOf(ids, st1.used, played, startIdx, TRUE)
                  IN IF ~allowRematches /\ Len(clean) = 0
                     THEN [ok |-> FALSE, st |-> st1]
                     ELSE LET candidates ==
                                IF Len(clean) > 0 THEN clean
                                ELSE IF allowRematches THEN dirty ELSE <<>>
                              sorted == sortBy(candidates,
                                          [p \in Pairs(candidates) |->
                                             candidateLess(ids, dfc, startIdx, p[1], p[2])])
                          IN tryCandidates(ids, allowRematches, played, dfc, startIdx, sorted, 1, st1)

\* for (const b of candidates) { push; dfs; if ok return true; pop }
tryCandidates(ids, allowRematches, played, dfc, startIdx, candidates, k, st) ==
  IF k > Len(candidates) THEN [ok |-> FALSE, st |-> st]
  ELSE LET a == ids[startIdx + 1]
           b == candidates[k]
           pushed == [steps |-> st.steps,
                      chosen |-> Append(st.chosen, [a |-> a, b |-> b]),
                      used |-> st.used \cup {a, b}]
           r == dfs(ids, allowRematches, played, dfc, startIdx + 1, pushed)
       IN IF r.ok THEN r
          ELSE tryCandidates(ids, allowRematches, played, dfc, startIdx, candidates, k + 1,
                             [steps |-> r.st.steps, chosen |-> st.chosen, used |-> st.used])

\* return { ok, chosen, leftovers }, with the steps counted
runResult(ids, r) ==
  [ok |-> r.ok,
   chosen |-> r.st.chosen,
   leftovers |-> SelectSeq(ids, LAMBDA id : id \notin r.st.used),
   steps |-> r.st.steps,
   strictSteps |-> 0]

run(ids, allowRematches, played, dfc) ==
  runResult(ids, dfs(ids, allowRematches, played, dfc, 0,
                     [steps |-> 0, chosen |-> <<>>, used |-> {}]))

\* the bag paired by the rematch-tolerant pass alone
pairBagSinglePass(ids, played, dfc) ==
  [run(ids, TRUE, played, dfc) EXCEPT !.strictSteps = 0]

\* the strict pass returned whatever it found
strictOnly(strict) == [strict EXCEPT !.strictSteps = strict.steps]

\* the bag paired by the rematch-free pass alone
pairBagStrictOnly(ids, played, dfc) == strictOnly(run(ids, FALSE, played, dfc))

\* if (strict.ok && strict.leftovers.length === 0) return strict; return run(true)
secondPass(ids, played, dfc, strict) ==
  [(IF strict.ok /\ Len(strict.leftovers) = 0 THEN strict ELSE run(ids, TRUE, played, dfc))
     EXCEPT !.strictSteps = strict.steps]

\* strictSteps (the steps of pass 1) is kept beside the returned run for the properties below
pairBag(ids, played, dfc) == secondPass(ids, played, dfc, run(ids, FALSE, played, dfc))

(* ---------------- generateSwissPairings: downfloats ---------------- *)

\* the competitor moved down with its counter left as it is
downfloatUncounted(wk, dfc, pid) ==
  [work |-> IF Len(wk) >= 2
            THEN [wk EXCEPT ![2] = [@ EXCEPT !.ids = Append(@, pid)]]
            ELSE Append(wk, [mp |-> NegativeInfinity, ids |-> <<pid>>]),
   downfloatCounts |-> dfc]

\* downfloat(gi, pid) on wk = work[gi..]
downfloat(wk, dfc, pid) ==
  [work |-> IF Len(wk) >= 2
            THEN [wk EXCEPT ![2] = [@ EXCEPT !.ids = Append(@, pid)]]
            ELSE Append(wk, [mp |-> NegativeInfinity, ids |-> <<pid>>]),
   downfloatCounts |-> [dfc EXCEPT ![pid] = Min(@ + 1, MaxDownfloats)]]

RECURSIVE downfloatLoop(_, _, _, _, _, _)
RECURSIVE afterDownfloat(_, _, _, _, _, _)

\* while (result.leftovers.length > 0) { ... }; moved lists the picks downfloated so far,
\* each with the leftovers it was picked from
downfloatLoop(ids, result, wk, dfc, played, moved) ==
  IF Len(result.leftovers) = 0
  THEN [result |-> result, work |-> wk, downfloatCounts |-> dfc, downfloated |-> moved]
  ELSE LET viable == SelectSeq(result.leftovers,
                       LAMBDA id : IF protectTopN > 0
                                   THEN standingsIndex(id) >= protectTopN ELSE TRUE)
           pick == IF Len(viable) > 0 THEN viable[Len(viable)]
                   ELSE result.leftovers[Len(result.leftovers)]
           ids1 == SelectSeq(ids, LAMBDA id : id # pick)
           d == downfloat(wk, dfc, pick)
       IN afterDownfloat(ids1, pairBag(ids1, played, d.downfloatCounts), d,
                         Len(viable) = 0, played,
                         Append(moved, [pick |-> pick, leftovers |-> result.leftovers]))

\* result = pairBag(ids); the two breaks that end the loop body
afterDownfloat(ids, result, d, noneViable, played, moved) ==
  IF (result.ok /\ Len(result.leftovers) = 0) \/ noneViable
  THEN [result |-> result, work |-> d.work,
        downfloatCounts |-> d.downfloatCounts, downfloated |-> moved]
  ELSE downfloatLoop(ids, result, d.work, d.downfloatCounts, played, moved)

RECURSIVE commitCheckAfterAdd(_, _, _)
\* the commit loop with the rematch test placed after the two pw(..).add calls
commitCheckAfterAdd(chosen, k, acc) ==
  IF k > Len(chosen) THEN acc
  ELSE LET p == chosen[k]
           added == [acc.playedWith EXCEPT ![p.a] = @ \cup {p.b}, ![p.b] = @ \cup {p.a}]
       IN commitCheckAfterAdd(chosen, k + 1,
            [pairings |-> Append(acc.pairings, p),
             unpaired |-> acc.unpaired \ {p.a, p.b},
             rematchesUsed |-> IF p.b \in pw(added, p.a)
                               THEN Append(acc.rematchesUsed, p) ELSE acc.rematchesUsed,
             playedWith |-> added])

RECURSIVE commit(_, _, _)
\* for (const p of result.chosen) { ... }; acc = [pairings, unpaired, rematchesUsed, playedWith]
commit(chosen, k, acc) ==
  IF k > Len(chosen) THEN acc
  ELSE LET p == chosen[k]
       IN commit(chosen, k + 1,
            [pairings |-> Append(acc.pairings, p),
             unpaired |-> acc.unpaired \ {p.a, p.b},
             rematchesUsed |-> IF p.b \in pw(acc.playedWith, p.a)
                               THEN Append(acc.rematchesUsed, p) ELSE acc.rematchesUsed,
             playedWith |-> [acc.playedWith EXCEPT ![p.a] = @ \cup {p.b},
                                                   ![p.b] = @ \cup {p.a}]])

(* ---------------- generateSwissPairings: final cleanup and sort ---------------- *)

RECURSIVE greedyWhileMoreThanTwo(_, _)
\* the cleanup loop with the condition ids.length > 2
greedyWhileMoreThanTwo(ids, acc) ==
  IF Len(ids) <= 2 THEN acc
  ELSE LET a == Head(ids)
           rest == Tail(ids)
           free == {i \in 1..Len(rest) : ~(avoidRematches /\ rest[i] \in pw(acc.playedWith, a))}
           bIdx == IF free = {} THEN 1 ELSE CHOOSE i \in free : \A j \in free : i <= j
           b == rest[bIdx]
           rest1 == SubSeq(rest, 1, bIdx - 1) \o SubSeq(rest, bIdx + 1, Len(rest))
       IN greedyWhileMoreThanTwo(rest1, commit(<<[a |-> a, b |-> b]>>, 1, acc))

RECURSIVE greedy(_, _)
\* while (ids.length >= 2) { ... }
greedy(ids, acc) ==
  IF Len(ids) < 2 THEN acc
  ELSE LET a == Head(ids)
           rest == Tail(ids)
           free == {i \in 1..Len(rest) : ~(avoidRematches /\ rest[i] \in pw(acc.playedWith, a))}
           bIdx == IF free = {} THEN 1 ELSE CHOOSE i \in free : \A j \in free : i <= j
           b == rest[bIdx]
           rest1 == SubSeq(rest, 1, bIdx - 1) \o SubSeq(rest, bIdx + 1, Len(rest))
       IN greedy(rest1, commit(<<[a |-> a, b |-> b]>>, 1, acc))

\* the final comparator reading the b side first
pairingLessSideBFirst(p1, p2) ==
  LET a1 == standingsIndex(p1.a)
      a2 == standingsIndex(p2.a)
      b1 == standingsIndex(p1.b)
      b2 == standingsIndex(p2.b)
  IN IF b1 # b2 THEN b1 < b2
     ELSE IF a1 # a2 THEN a1 < a2
     ELSE HashLess(pairSeedKey(p1), pairSeedKey(p2))

\* the final sort's comparator: pos of the a sides, then of the b sides, then the pair hash
pairingLess(p1, p2) ==
  LET a1 == standingsIndex(p1.a)
      a2 == standingsIndex(p2.a)
      b1 == standingsIndex(p1.b)
      b2 == standingsIndex(p2.b)
  IN IF a1 # a2 THEN a1 < a2
     ELSE IF b1 # b2 THEN b1 < b2
     ELSE HashLess(pairSeedKey(p1), pairSeedKey(p2))

(* ---------------- the inputs explored ---------------- *)

RECURSIVE SubsetsUpTo(_, _)
SubsetsUpTo(S, k) ==
  IF k = 0 THEN {{}}
  ELSE LET smaller == SubsetsUpTo(S, k - 1)
       IN smaller \cup {T \cup {x} : T \in smaller, x \in S}

\* standings rows come out of computeStandings: match points never increase down the list
SortedPoints(n) ==
  {pts \in [1..n -> 0..MaxPoints] : \A i \in 1..n : \A j \in i..n : pts[i] >= pts[j]}

Rows(n, pts, ret) ==
  [i \in 1..n |-> [playerId |-> i, matchPoints |-> pts[i], retired |-> i \in ret]]

HistoryRecords(n) ==
  {[playerId |-> a, opponentId |-> b] : a \in 1..n, b \in 0..n} \ 
     {[playerId |-> a, opponentId |-> a] : a \in 1..n}

HistoryItems(n) == {m \in HistoryRecords(n) : m.opponentId = None \/ m.playerId < m.opponentId}

NoGroup == [ids |-> << >>, chosen |-> << >>, downfloated |-> << >>, unmatched |-> << >>,
            strictExceeded |-> FALSE, exceeded |-> FALSE, runExceeded |-> FALSE]

NoRequest == [mode |-> "swiss", matches |-> << >>,
              options |-> [eventId |-> DefaultEventId, seeding |-> << >>]]

\* no helper call is under way
HelperIdle ==
  /\ hpc = "idle"
  /\ input = << >>
  /\ out = << >>

\* no bracket has been generated
BracketIdle ==
  /\ bracket = << >>
  /\ calls = << >>

\* no computeStandings call is under way
StandingsIdle ==
  /\ spc = "idle"
  /\ req = NoRequest
  /\ rows = << >>
  /\ HelperIdle
  /\ BracketIdle

Idle ==
  /\ unpaired = {}
  /\ playedWith = [p \in AllIds |-> {}]
  /\ byesTaken = {}
  /\ downfloatCounts = << >>
  /\ bye = None
  /\ pairings = << >>
  /\ rematchesUsed = << >>
  /\ work = << >>
  /\ lastGroup = NoGroup
  /\ cleanupPairs = << >>
  /\ movedDown = << >>

\* up to MaxPlayers rows, default options, any history of up to MaxHistory records
InitGeneral ==
  /\ pc = "call"
  /\ \E n \in 0..MaxPlayers :
       /\ \E pts \in SortedPoints(n), ret \in SubsetsUpTo(1..n, MaxRetired) :
            standings = Rows(n, pts, ret)
       /\ history \in SubsetsUpTo(HistoryItems(n), MaxHistory)
  /\ eventId = DefaultEventId
  /\ avoidRematches = TRUE
  /\ protectTopN = DefaultProtectTopN
  /\ maxBacktrack = DefaultMaxBacktrack
  /\ Idle
  /\ StandingsIdle

\* two option sets beside the defaults: another event seed with rematches allowed in the cleanup
StressOptions == {<<DefaultEventId, TRUE>>, <<OtherEventId, FALSE>>}

\* under 3 steps no pair can be formed; with 3 or 4 steps only bags of two can be paired
SmallBudgets == {0, SmallBudget}

PairRecords(n) == {m \in HistoryItems(n) : m.opponentId # None}

\* up to StressPlayers rows, small step budgets, protected top rows, at most one history record
InitStress ==
  /\ pc = "call"
  /\ \E n \in 2..StressPlayers :
       /\ \E pts \in SortedPoints(n) : standings = Rows(n, pts, {})
       /\ history \in SubsetsUpTo(PairRecords(n), 1)
       /\ protectTopN \in 0..n
  /\ \E o \in StressOptions : eventId = o[1] /\ avoidRematches = o[2]
  /\ maxBacktrack \in SmallBudgets
  /\ Idle
  /\ StandingsIdle

LadderPlayers == 4

\* LadderPlayers rows over one more level of match points, default options, no history
InitLadder ==
  /\ pc = "call"
  /\ \E pts \in {q \in [1..LadderPlayers -> 0..(MaxPoints + 1)] :
                    \A i \in 1..LadderPlayers : \A j \in i..LadderPlayers : q[i] >= q[j]} :
       standings = Rows(LadderPlayers, pts, {})
  /\ history = {}
  /\ eventId = DefaultEventId
  /\ avoidRematches = TRUE
  /\ protectTopN = DefaultProtectTopN
  /\ maxBacktrack = DefaultMaxBacktrack
  /\ Idle
  /\ StandingsIdle

RematchPlayers == 4

\* RematchPlayers rows level on points, default options, any set of earlier meetings
InitRematches ==
  /\ pc = "call"
  /\ standings = Rows(RematchPlayers, [i \in 1..RematchPlayers |-> 0], {})
  /\ history \in SUBSET PairRecords(RematchPlayers)
  /\ eventId = DefaultEventId
  /\ avoidRematches = TRUE
  /\ protectTopN = DefaultProtectTopN
  /\ maxBacktrack = DefaultMaxBacktrack
  /\ Idle
  /\ StandingsIdle

Init == InitGeneral \/ InitStress \/ InitLadder \/ InitRematches

(* ---------------- generateSwissPairings: one call ---------------- *)

\* the keys of a Map<number, ...> sorted with (a, b) => b - a
keysDesc(keys) ==
  [k \in 1..Cardinality(keys) |-> CHOOSE x \in keys : Cardinality({y \in keys : y > x}) = k - 1]

\* the bye handed to the lowest-ranked player whatever the history
byeForLowest(ps, taken) == ps[Len(ps)]

\* lowest-ranked without prior bye; else absolute lowest
byeFor(ps, taken) ==
  LET n == Len(ps)
      inOrderLowToHigh == [i \in 1..n |-> ps[n + 1 - i]]
      free == {i \in 1..n : inOrderLowToHigh[i] \notin taken}
  IN IF free # {} THEN inOrderLowToHigh[CHOOSE i \in free : \A j \in free : i <= j]
     ELSE inOrderLowToHigh[1]

playedWithOf(hist) ==
  [p \in AllIds |->
     {m.opponentId : m \in {h \in hist : h.playerId = p /\ h.opponentId # None}}
       \cup {m.playerId : m \in {h \in hist : h.opponentId = p}}]

byesTakenOf(hist) == {m.playerId : m \in {h \in hist : h.opponentId = None}}

\* lines 81-153: the pool, the history constraints, the score groups and the bye
Setup ==
  /\ pc = "call"
  /\ LET ps == players
         taken == byesTakenOf(history)
         theBye == IF Len(ps) % 2 = 1 THEN byeFor(ps, taken) ELSE None
         pool == Range(ps) \ {theBye}
         mpKeysDesc == keysDesc({activeStandings[i].matchPoints : i \in 1..Len(activeStandings)})
         groupOf(mp) == SelectSeq(ps, LAMBDA id : activeStandings[standingsIndex(id) + 1].matchPoints = mp)
     IN /\ byesTaken' = taken
        /\ playedWith' = playedWithOf(history)
        /\ downfloatCounts' = [p \in Range(ps) |-> 0]
        /\ bye' = theBye
        /\ unpaired' = pool
        /\ work' = [k \in 1..Len(mpKeysDesc) |->
                      [mp |-> mpKeysDesc[k],
                       ids |-> SelectSeq(groupOf(mpKeysDesc[k]), LAMBDA id : id \in pool)]]
  /\ pairings' = << >>
  /\ rematchesUsed' = << >>
  /\ pc' = "groups"
  /\ movedDown' = [p \in Range(players) |-> 0]
  /\ UNCHANGED <<lastGroup, cleanupPairs>>
  /\ UNCHANGED <<standings, history, eventId, avoidRematches, protectTopN, maxBacktrack>>
  /\ UNCHANGED standingsVars
  /\ UNCHANGED helperVars
  /\ UNCHANGED bracketVars

\* lines 240-279: the body of the loop over the working groups, applied to Head(work);
\* the values of the variables it writes, with what the iteration saw and did
\* lines 270-278: the chosen pairings committed after the downfloat loop r
committed(ids, first, r) ==
  LET c == commit(r.result.chosen, 1,
                  [pairings |-> pairings, unpaired |-> unpaired,
                   rematchesUsed |-> rematchesUsed, playedWith |-> playedWith])
  IN [work |-> Tail(r.work), downfloatCounts |-> r.downfloatCounts,
      pairings |-> c.pairings, unpaired |-> c.unpaired,
      rematchesUsed |-> c.rematchesUsed, playedWith |-> c.playedWith,
      seen |-> [ids |-> ids, chosen |-> r.result.chosen,
                downfloated |-> [k \in 1..Len(r.downfloated) |-> r.downfloated[k].pick],
                unmatched |-> [k \in 1..Len(r.downfloated) |-> r.downfloated[k].leftovers],
                strictExceeded |-> first.strictSteps > maxBacktrack,
                exceeded |-> first.strictSteps > maxBacktrack
                               \/ first.steps > maxBacktrack,
                runExceeded |-> first.steps > maxBacktrack]]

\* lines 247-268: the first pairBag result of the group, then the downfloat loop
downfloated(ids, first) ==
  committed(ids, first, downfloatLoop(ids, first, work, downfloatCounts, playedWith, << >>))

groupStep ==
  LET group == Head(work)
      ids == SelectSeq(group.ids, LAMBDA id : id \in unpaired)
  IN IF Len(ids) = 0
     THEN [work |-> Tail(work), downfloatCounts |-> downfloatCounts, pairings |-> pairings,
           unpaired |-> unpaired, rematchesUsed |-> rematchesUsed, playedWith |-> playedWith,
           seen |-> NoGroup]
     ELSE downfloated(ids, pairBag(ids, playedWith, downfloatCounts))

\* the variables of the call after an iteration with the outcome g
written(g) ==
  /\ work' = g.work
  /\ lastGroup' = g.seen
  /\ movedDown' = [p \in DOMAIN movedDown |->
                     Min(movedDown[p] + Cardinality({k \in 1..Len(g.seen.downfloated) :
                                                       g.seen.downfloated[k] = p}),
                         MaxDownfloats)]
  /\ downfloatCounts' = g.downfloatCounts
  /\ pairings' = g.pairings
  /\ unpaired' = g.unpaired
  /\ rematchesUsed' = g.rematchesUsed
  /\ playedWith' = g.playedWith

\* one iteration of the loop over the working groups
ProcessGroup ==
  /\ pc = "groups"
  /\ work # << >>
  /\ written(groupStep)
  /\ UNCHANGED <<pc, standings, history, eventId, avoidRematches, protectTopN, maxBacktrack,
                 byesTaken, bye, cleanupPairs>>
  /\ UNCHANGED standingsVars
  /\ UNCHANGED helperVars
  /\ UNCHANGED bracketVars

\* lines 281-314: the greedy cleanup, the final sort and the return
Finish ==
  /\ pc = "groups"
  /\ work = << >>
  /\ LET left == SelectSeq(players, LAMBDA id : id \in unpaired)
         ids == sortBy(left, [p \in Pairs(left) |-> HashLess(seedKey(p[1]), seedKey(p[2]))])
         c == IF unpaired # {}
              THEN greedy(ids, [pairings |-> pairings, unpaired |-> unpaired,
                                rematchesUsed |-> rematchesUsed, playedWith |-> playedWith])
              ELSE [pairings |-> pairings, unpaired |-> unpaired,
                    rematchesUsed |-> rematchesUsed, playedWith |-> playedWith]
     IN /\ pairings' = sortBy(c.pairings,
                               [p \in Pairs(c.pairings) |-> pairingLess(p[1], p[2])])
        /\ unpaired' = c.unpaired
        /\ rematchesUsed' = c.rematchesUsed
        /\ playedWith' = c.playedWith
        /\ cleanupPairs' = SubSeq(c.pairings, Len(pairings) + 1, Len(c.pairings))
  /\ pc' = "done"
  /\ UNCHANGED <<standings, history, eventId, avoidRematches, protectTopN, maxBacktrack,
                 byesTaken, downfloatCounts, bye, work, lastGroup, movedDown>>
  /\ UNCHANGED standingsVars
  /\ UNCHANGED helperVars
  /\ UNCHANGED bracketVars

Next == Setup \/ ProcessGroup \/ Finish

Spec == Init /\ [][Next]_vars

(* ---------------- computeStandings: one call ---------------- *)

Modes == {"swiss", "roundrobin", "singleelimination"}

\* what validateMatch accepts: round >= 1, opponentId null exactly for BYE, no self-match
ValidRecords ==
  {m \in [round : 1..MaxRound, playerId : 1..MaxCompetitors,
          opponentId : {None} \cup (1..MaxCompetitors),
          result : {WIN, LOSS, DRAW, BYE, FORFEIT_WIN, FORFEIT_LOSS},
          penalties : 0..MaxPenalty] :
     /\ (m.opponentId = None) = (m.result = BYE)
     /\ m.playerId # m.opponentId}

\* the match ids are "m1", "m2", ... in list order
WithIds(recs) ==
  [i \in 1..Len(recs) |->
     [id |-> i, round |-> recs[i].round, playerId |-> recs[i].playerId,
      opponentId |-> recs[i].opponentId, result |-> recs[i].result,
      penalties |-> recs[i].penalties]]

\* validateRoundRobinMirrors with acceptSingleEntryMatches off: no pairing of a round
\* is reported by exactly one record
Mirrored(ms) ==
  \A i \in 1..Len(ms) :
     ms[i].opponentId # None =>
       Cardinality({j \in 1..Len(ms) :
                      /\ ms[j].round = ms[i].round
                      /\ {ms[j].playerId, ms[j].opponentId}
                           = {ms[i].playerId, ms[i].opponentId}}) # 1

Accepted(mode, ms) == mode = "roundrobin" => Mirrored(ms)

SeedIds == 1..(IF MaxCompetitors > 4 THEN MaxCompetitors ELSE 4)

NoSeeding == [p \in SeedIds |-> None]

\* any list of up to MaxRecords valid records, no seeding or the seeds 1, 2, 3, ...
InitAnyRecords ==
  \E mode \in Modes, k \in 0..MaxRecords :
    \E recs \in [1..k -> ValidRecords] :
      /\ Accepted(mode, WithIds(recs))
      /\ \E seeding \in {NoSeeding, [p \in SeedIds |-> p]} :
           req = [mode |-> mode, matches |-> WithIds(recs),
                  options |-> [eventId |-> DefaultEventId, seeding |-> seeding]]

\* the two records of one pairing
Pairing(round, a, b, ra, rb) ==
  << [round |-> round, playerId |-> a, opponentId |-> b, result |-> ra, penalties |-> 0],
     [round |-> round, playerId |-> b, opponentId |-> a, result |-> rb, penalties |-> 0] >>

\* the final of a bracket of four, and possibly the third-place match of the two
\* others, which the bracket generator puts in the round of the final
Finals ==
  {Pairing(2, x, y, rx, ry) : x \in {1, 2}, y \in {3, 4}, rx \in {WIN, LOSS}, ry \in {WIN, LOSS}}
  \cup {Pairing(2, x, y, rx, ry) \o Pairing(2, 3 - x, 7 - y, b[1], b[2]) :
          x \in {1, 2}, y \in {3, 4}, rx \in {WIN, LOSS}, ry \in {WIN, LOSS},
          b \in {<<WIN, LOSS>>, <<LOSS, WIN>>}}

\* a bracket of four: the semifinals A-B and C-D, then possibly a final and a
\* third-place match, every side of the semifinals and the final recorded WIN or LOSS
\* (both LOSS included), with four seeding maps
InitBracket ==
  \E mode \in Modes, r1, r2, r3, r4 \in {WIN, LOSS} :
    \E final \in {<< >>} \cup Finals :
      \E seeding \in {NoSeeding, [p \in SeedIds |-> p], [p \in SeedIds |-> 5 - p],
                      [p \in SeedIds |-> IF p \in {1, 3} THEN p ELSE None]},
         event \in {DefaultEventId, OtherEventId} :
        req = [mode |-> mode,
               matches |-> WithIds(Pairing(1, 1, 2, r1, r2) \o Pairing(1, 3, 4, r3, r4) \o final),
               options |-> [eventId |-> event, seeding |-> seeding]]

SeedNumbers == 2

PenaltyPoints == 2

\* a round of four in which both matches are recorded LOSS for both sides, each side
\* with its penalties, and any seeding map that gives each player a seed or none
InitDoubleLossRound ==
  \E pen \in [1..4 -> 0..PenaltyPoints], seeding \in [SeedIds -> {None} \cup (1..SeedNumbers)] :
    req = [mode |-> "singleelimination",
           matches |-> WithIds([i \in 1..4 |->
                         [round |-> 1, playerId |-> i,
                          opponentId |-> IF i % 2 = 1 THEN i + 1 ELSE i - 1,
                          result |-> LOSS, penalties |-> pen[i]]]),
           options |-> [eventId |-> DefaultEventId, seeding |-> seeding]]

PairingIdle ==
  /\ pc = "idle"
  /\ standings = << >>
  /\ history = {}
  /\ eventId = DefaultEventId
  /\ avoidRematches = TRUE
  /\ protectTopN = DefaultProtectTopN
  /\ maxBacktrack = DefaultMaxBacktrack
  /\ Idle

StandingsInit ==
  /\ spc = "call"
  /\ rows = << >>
  /\ InitAnyRecords \/ InitBracket \/ InitDoubleLossRound
  /\ PairingIdle
  /\ HelperIdle
  /\ BracketIdle

\* index.ts, lines 74-85: dispatch on req.mode and return the engine's rows
ComputeStandings ==
  /\ spc = "call"
  /\ rows' = computeStandings(req)
  /\ spc' = "done"
  /\ UNCHANGED req
  /\ UNCHANGED pairingVars
  /\ UNCHANGED helperVars
  /\ UNCHANGED bracketVars

StandingsNext == ComputeStandings

StandingsSpec == StandingsInit /\ [][StandingsNext]_vars

TypeOK ==
  /\ pc \in {"idle", "call", "groups", "done"}
  /\ unpaired \subseteq AllIds
  /\ bye \in AllIds \cup {None}

(* ======================= properties of generateSwissPairings ======================= *)

Done == pc = "done"

ActiveIds == {standings[i].playerId : i \in {j \in 1..Len(standings) : ~standings[j].retired}}

RetiredIds == {standings[i].playerId : i \in {j \in 1..Len(standings) : standings[j].retired}}

\* position of a player in the full standings list (1 = top)
Position(id) == CHOOSE i \in 1..Len(standings) : standings[i].playerId = id

\* number of pairing slots a player occupies, plus one if the player holds the bye
Slots(id) == Cardinality({k \in 1..Len(pairings) : pairings[k].a = id})
             + Cardinality({k \in 1..Len(pairings) : pairings[k].b = id})

Appearances(id) == Slots(id) + (IF bye = id THEN 1 ELSE 0)

\* a and b have a non-bye record against each other in the input history
MetBefore(a, b) ==
  \E m \in history : m.opponentId # None /\ {m.playerId, m.opponentId} = {a, b}

\* C1: in the returned result every non-retired competitor appears exactly once
\* across the pairings and the (single) bye.
C1_PairingCompleteness ==
  Done => \A id \in ActiveIds : Appearances(id) = 1

C1_Witness ==
  /\ Done
  /\ Len(pairings) >= 2
  /\ bye # None
  /\ history # {}
  /\ \E id \in ActiveIds : downfloatCounts[id] > 0

\* C3: a competitor whose row has retired = true is in no pairing and is not the bye.
C3_RetirementExclusion ==
  \A id \in RetiredIds : Appearances(id) = 0

C3_Witness ==
  /\ Done
  /\ \E id \in RetiredIds : \E m \in history : id \in {m.playerId, m.opponentId}
  /\ Len(pairings) >= 1
  /\ bye # None

\* C4: no competitor is in two pairings, no pairing has one competitor on both
\* sides, and the bye recipient is in no pairing.
C4_NoDoubleBooking ==
  /\ \A id \in AllIds : Slots(id) <= 1
  /\ \A k \in 1..Len(pairings) : pairings[k].a # pairings[k].b
  /\ bye # None => Slots(bye) = 0

C4_Witness ==
  /\ Done
  /\ Len(pairings) >= 2
  /\ bye # None
  /\ rematchesUsed # << >>

\* the non-retired competitors with no bye record in history
NoByeYet == {id \in ActiveIds : ~\E m \in history : m.playerId = id /\ m.opponentId = None}

Lowest(S) == CHOOSE id \in S : \A other \in S : Position(other) <= Position(id)

\* C7: with an odd number of non-retired competitors the bye goes to the lowest-ranked
\* one without a bye record, or to the lowest-ranked one when all have a bye record.
C7_ByeToLowestWithoutBye ==
  (pc # "call" /\ Cardinality(ActiveIds) % 2 = 1) =>
     bye = IF NoByeYet # {} THEN Lowest(NoByeYet) ELSE Lowest(ActiveIds)

\* the lowest-ranked active competitor already had a bye, so the bye moves up the list
C7_Witness ==
  /\ Done
  /\ Cardinality(ActiveIds) >= 3
  /\ Cardinality(ActiveIds) % 2 = 1
  /\ NoByeYet # {}
  /\ Lowest(ActiveIds) \notin NoByeYet
  /\ bye = Lowest(NoByeYet)

\* the fallback: every active competitor has a bye record
C7_WitnessFallback ==
  /\ Done
  /\ Cardinality(ActiveIds) >= 3
  /\ Cardinality(ActiveIds) % 2 = 1
  /\ NoByeYet = {}

RematchPairings == {k \in 1..Len(pairings) : MetBefore(pairings[k].a, pairings[k].b)}

\* C8: rematchesUsed lists, once each, exactly the returned pairings whose two
\* competitors met before according to history; those pairings stay in pairings.
C8_RematchesRecorded ==
  Done =>
    /\ Range(rematchesUsed) = {pairings[k] : k \in RematchPairings}
    /\ Len(rematchesUsed) = Cardinality(RematchPairings)

C8_Witness ==
  /\ Done
  /\ rematchesUsed # << >>
  /\ Len(pairings) > Len(rematchesUsed)

\* a rematch made by the greedy cleanup
C8_WitnessCleanup ==
  /\ Done
  /\ \E k \in 1..Len(cleanupPairs) : MetBefore(cleanupPairs[k].a, cleanupPairs[k].b)

\* keys of a pairing under the two readings of "lower-ranked": the worse-placed
\* member first, or the better-placed member first
WorseFirstKey(p) == <<IF Position(p.a) > Position(p.b) THEN Position(p.a) ELSE Position(p.b),
                      IF Position(p.a) > Position(p.b) THEN Position(p.b) ELSE Position(p.a)>>

BetterFirstKey(p) == <<WorseFirstKey(p)[2], WorseFirstKey(p)[1]>>

KeyLeq(k1, k2) == k1[1] < k2[1] \/ (k1[1] = k2[1] /\ k1[2] <= k2[2])

\* C9 as stated: the returned list is ordered by (lower-ranked member, higher-ranked
\* member) of each pair, under either reading of "lower-ranked".
C9_SortedByLowerThenHigher ==
  Done =>
    \/ \A i \in 1..Len(pairings) : \A j \in i..Len(pairings) :
         KeyLeq(WorseFirstKey(pairings[i]), WorseFirstKey(pairings[j]))
    \/ \A i \in 1..Len(pairings) : \A j \in i..Len(pairings) :
         KeyLeq(BetterFirstKey(pairings[i]), BetterFirstKey(pairings[j]))

\* C9 amended: the returned list is in strictly ascending standings position of each
\* pair's a side (the member the search or the cleanup picked first).
C9_SortedBySideA ==
  Done =>
    \A i \in 1..Len(pairings) : \A j \in (i + 1)..Len(pairings) :
       Position(pairings[i].a) < Position(pairings[j].a)

\* two pairs whose a side is the worse-placed member of one and the better-placed of the other
C9_Witness ==
  /\ Done
  /\ Len(pairings) >= 2
  /\ \E i \in 1..Len(pairings) : Position(pairings[i].a) > Position(pairings[i].b)
  /\ \E i \in 1..Len(pairings) : Position(pairings[i].a) < Position(pairings[i].b)

RECURSIVE CleanMatchingExists(_)
\* the set S can be split into pairs none of which met before
CleanMatchingExists(S) ==
  IF S = {} THEN TRUE
  ELSE LET x == CHOOSE id \in S : \A other \in S : id <= other
       IN \E y \in S \ {x} : ~MetBefore(x, y) /\ CleanMatchingExists(S \ {x, y})

GroupRematches == {k \in 1..Len(lastGroup.chosen) :
                     MetBefore(lastGroup.chosen[k].a, lastGroup.chosen[k].b)}

\* C5 as stated: a group that admits a complete matching without rematch gets no rematch.
C5_RematchFreeWhenPossible ==
  (lastGroup.ids # << >> /\ CleanMatchingExists(Range(lastGroup.ids))) => GroupRematches = {}

\* C5 amended: a group that admits a complete matching without rematch, and whose
\* rematch-free search pass stays within maxBacktrack steps, is paired completely
\* inside the group and gets no rematch.
C5_RematchFreeWithinBudget ==
  (lastGroup.ids # << >> /\ CleanMatchingExists(Range(lastGroup.ids))
     /\ ~lastGroup.strictExceeded) =>
       /\ GroupRematches = {}
       /\ 2 * Len(lastGroup.chosen) = Len(lastGroup.ids)
       /\ lastGroup.downfloated = << >>

\* the search had to back out of its first choices: the two adjacent pairs of a
\* group of four are rematches, yet a rematch-free matching exists and is returned
C5_Witness ==
  /\ Len(lastGroup.ids) >= 4
  /\ MetBefore(lastGroup.ids[1], lastGroup.ids[2])
  /\ MetBefore(lastGroup.ids[3], lastGroup.ids[4])
  /\ CleanMatchingExists(Range(lastGroup.ids))
  /\ ~lastGroup.strictExceeded
  /\ 2 * Len(lastGroup.chosen) = Len(lastGroup.ids)

\* the loop over the working groups is at a group whose processing leaves every
\* variable of the call as it is: the next iteration meets the same group again
Unchanged(g) ==
  /\ g.work = work
  /\ g.downfloatCounts = downfloatCounts
  /\ g.pairings = pairings
  /\ g.unpaired = unpaired
  /\ g.rematchesUsed = rematchesUsed
  /\ g.playedWith = playedWith

LoopRepeats ==
  /\ pc = "groups"
  /\ work # << >>
  /\ Unchanged(groupStep)

\* C2: every call returns.  The call is deterministic, so it returns only if the loop
\* over the working groups never comes back to a state it has been in.
C2_Terminates == ~LoopRepeats

\* C6: once the search of a group has exceeded the step budget the call still
\* returns (the group loop does not come back to the same state), and the result
\* has every non-retired competitor paired or given the bye.
C6_BudgetExhaustionAbsorbed ==
  /\ lastGroup.exceeded => ~LoopRepeats
  /\ (Done /\ (lastGroup.exceeded \/ cleanupPairs # << >>)) => \A id \in ActiveIds : Appearances(id) = 1

\* the cap on the downfloat counters is never reached by a call that returns
CountersBelowCap == Done => \A id \in ActiveIds : downfloatCounts[id] < MaxDownfloats

(* ======================= properties of computeStandings ======================= *)

\* the competitors that have outcome records
Competitors == {req.matches[i].playerId : i \in 1..Len(req.matches)}

\* a pairing of the request recorded as LOSS for both sides
DoubleLoss(i, j) ==
  /\ req.matches[i].round = req.matches[j].round
  /\ req.matches[i].opponentId = req.matches[j].playerId
  /\ req.matches[j].opponentId = req.matches[i].playerId
  /\ req.matches[i].result = LOSS
  /\ req.matches[j].result = LOSS

C10_WitnessSwiss ==
  /\ spc = "done"
  /\ req.mode = "swiss"
  /\ Len(rows) = 2
  /\ \E i, j \in 1..Len(req.matches) : DoubleLoss(i, j)

(* ======================= createForfeitMatchesForRetirements ======================= *)

ForfeitPlayers == 3

ForfeitRounds == 2

ForfeitPairings == 2

ForfeitPrefix == "FORFEIT"

\* the round and the two ids in the order given
pairKeyAsGiven(p1, p2, r) == <<r, p1, p2>>

\* pairKey: the round and the two ids in ascending order
pairKey(p1, p2, r) == IF p1 < p2 THEN <<r, p1, p2>> ELSE <<r, p2, p1>>

\* the pairs that already have a real match result recorded for this round
seenPairsOf(existingMatches, round) ==
  {pairKey(existingMatches[i].playerId, existingMatches[i].opponentId, existingMatches[i].round) :
     i \in {j \in 1..Len(existingMatches) :
              existingMatches[j].round = round /\ existingMatches[j].opponentId # None}}

\* the winner's and the loser's record of one forfeited pairing
forfeitRecords(round, winner, loser) ==
  << [id |-> <<ForfeitPrefix, round, winner, loser, "WIN">>, round |-> round,
      playerId |-> winner, opponentId |-> loser, result |-> FORFEIT_WIN],
     [id |-> <<ForfeitPrefix, round, winner, loser, "LOSS">>, round |-> round,
      playerId |-> loser, opponentId |-> winner, result |-> FORFEIT_LOSS] >>

RECURSIVE forfeitLoop(_, _, _, _, _, _)
\* for (const p of pairings) { ... }
forfeitLoop(pairs, i, retiredSet, round, seenPairs, acc) ==
  IF i > Len(pairs) THEN acc
  ELSE LET a == pairs[i].a
           b == pairs[i].b
           aRetired == a \in retiredSet
           bRetired == b \in retiredSet
           key == pairKey(a, b, round)
       IN IF (aRetired /\ bRetired) \/ (~aRetired /\ ~bRetired)
          THEN forfeitLoop(pairs, i + 1, retiredSet, round, seenPairs, acc)
          ELSE IF key \in seenPairs
          THEN forfeitLoop(pairs, i + 1, retiredSet, round, seenPairs, acc)
          ELSE forfeitLoop(pairs, i + 1, retiredSet, round, seenPairs \cup {key},
                           acc \o forfeitRecords(round, IF aRetired THEN b ELSE a,
                                                        IF aRetired THEN a ELSE b))

createForfeitMatchesForRetirements(in) ==
  forfeitLoop(in.pairings, 1, in.retired, in.round,
              seenPairsOf(in.existingMatches, in.round), << >>)

\* the records existingMatches may hold: a bye, or one side's WIN over an opponent
ExistingRecords ==
  {m \in [round : 1..ForfeitRounds, playerId : 1..ForfeitPlayers,
          opponentId : {None} \cup (1..ForfeitPlayers), result : {WIN, BYE}] :
     /\ (m.opponentId = None) = (m.result = BYE)
     /\ m.playerId # m.opponentId}

ForfeitPairs == {p \in [a : 1..ForfeitPlayers, b : 1..ForfeitPlayers] : p.a # p.b}

ForfeitInit ==
  /\ hpc = "call"
  /\ out = << >>
  /\ \E round \in 1..ForfeitRounds, k \in 0..ForfeitPairings, retired \in SUBSET (1..ForfeitPlayers) :
       \E pairs \in [1..k -> ForfeitPairs], existing \in {<< >>} \cup {<<m>> : m \in ExistingRecords} :
         input = [round |-> round, pairings |-> pairs, retired |-> retired,
                  existingMatches |-> existing]
  /\ PairingIdle
  /\ spc = "idle" /\ req = NoRequest /\ rows = << >>
  /\ BracketIdle

CreateForfeitMatches ==
  /\ hpc = "call"
  /\ out' = createForfeitMatchesForRetirements(input)
  /\ hpc' = "done"
  /\ UNCHANGED input
  /\ UNCHANGED pairingVars
  /\ UNCHANGED standingsVars
  /\ UNCHANGED bracketVars

ForfeitNext == CreateForfeitMatches

ForfeitSpec == ForfeitInit /\ [][ForfeitNext]_vars

\* the pairing has exactly one retired side and existingMatches holds no non-bye
\* record of the unordered pair in the round
Forfeited(p) ==
  /\ (p.a \in input.retired) # (p.b \in input.retired)
  /\ \A i \in 1..Len(input.existingMatches) :
       LET m == input.existingMatches[i]
       IN ~(m.round = input.round /\ m.opponentId # None
            /\ {m.playerId, m.opponentId} = {p.a, p.b})

ForfeitWinner(p) == IF p.a \in input.retired THEN p.b ELSE p.a

ForfeitLoser(p) == IF p.a \in input.retired THEN p.a ELSE p.b

\* how many returned records say: in the round, player had this result against opponent
Returned(player, opponent, result) ==
  Cardinality({i \in 1..Len(out) :
                 /\ out[i].round = input.round
                 /\ out[i].playerId = player
                 /\ out[i].opponentId = opponent
                 /\ out[i].result = result})

\* C11: the helper returns, for every pairing with exactly one retired side and no
\* recorded non-bye result of that pair in the round, one FORFEIT_WIN record of the
\* non-retired player and one mirrored FORFEIT_LOSS record of the retired player,
\* both for the round, and every record it returns is one of these
C11_ForfeitsExactlyForRetiredPairings ==
  hpc = "done" =>
    /\ \A i \in 1..Len(input.pairings) :
         Forfeited(input.pairings[i]) =>
           /\ Returned(ForfeitWinner(input.pairings[i]), ForfeitLoser(input.pairings[i]),
                       FORFEIT_WIN) = 1
           /\ Returned(ForfeitLoser(input.pairings[i]), ForfeitWinner(input.pairings[i]),
                       FORFEIT_LOSS) = 1
    /\ \A j \in 1..Len(out) :
         \E i \in 1..Len(input.pairings) :
           /\ Forfeited(input.pairings[i])
           /\ out[j].round = input.round
           /\ \/ /\ out[j].result = FORFEIT_WIN
                 /\ out[j].playerId = ForfeitWinner(input.pairings[i])
                 /\ out[j].opponentId = ForfeitLoser(input.pairings[i])
              \/ /\ out[j].result = FORFEIT_LOSS
                 /\ out[j].playerId = ForfeitLoser(input.pairings[i])
                 /\ out[j].opponentId = ForfeitWinner(input.pairings[i])

\* two pairings with one retired side each: one forfeited, the other already played in
\* the round, and a record of another round that does not count
C11_Witness ==
  /\ hpc = "done"
  /\ Len(input.pairings) = 2
  /\ Len(out) = 2
  /\ \A i \in 1..2 : (input.pairings[i].a \in input.retired) # (input.pairings[i].b \in input.retired)
  /\ \E i \in 1..2 : ~Forfeited(input.pairings[i])

\* a pairing with one retired side is forfeited although another round has a record of the pair
C11_WitnessOtherRound ==
  /\ hpc = "done"
  /\ Len(out) = 2
  /\ Len(input.existingMatches) = 1
  /\ input.existingMatches[1].round # input.round
  /\ {input.existingMatches[1].playerId, input.existingMatches[1].opponentId}
       = {out[1].playerId, out[1].opponentId}

(* ======================= properties of computeSingleEliminationStandings ======================= *)

SingleElimDone == spc = "done" /\ req.mode = "singleelimination"

\* the deepest round present in the matches
TopRound == CHOOSE r \in 0..(MaxRound + 1) :
              /\ \A i \in 1..Len(req.matches) : req.matches[i].round <= r
              /\ r = 0 \/ \E i \in 1..Len(req.matches) : req.matches[i].round = r

RecordsOf(pid) == {i \in 1..Len(req.matches) : req.matches[i].playerId = pid}

IsWin(i) == req.matches[i].result \in {WIN, FORFEIT_WIN}

\* the round of the last match the player played
LastRound(pid) ==
  CHOOSE r \in 1..MaxRound :
    /\ \E i \in RecordsOf(pid) : req.matches[i].round = r
    /\ \A i \in RecordsOf(pid) : req.matches[i].round <= r

\* the player's last record: the latest round, and within it the greatest match id
LastRecord(pid) ==
  CHOOSE i \in RecordsOf(pid) :
    \A j \in RecordsOf(pid) :
      \/ req.matches[j].round < req.matches[i].round
      \/ req.matches[j].round = req.matches[i].round /\ req.matches[j].id <= req.matches[i].id

C12_WitnessTwoRecords ==
  /\ SingleElimDone
  /\ \E k \in 1..Len(rows) :
       /\ rows[k].eliminationRound = TopRound
       /\ \E i \in RecordsOf(rows[k].playerId) : req.matches[i].round = TopRound /\ IsWin(i)

\* records i and j are the two sides of one match, one recorded WIN and the other LOSS
Decided(i, j) ==
  /\ req.matches[i].round = req.matches[j].round
  /\ req.matches[i].opponentId = req.matches[j].playerId
  /\ req.matches[j].opponentId = req.matches[i].playerId
  /\ {req.matches[i].result, req.matches[j].result} = {WIN, LOSS}

WinnerOf(i, j) == IF req.matches[i].result = WIN THEN req.matches[i].playerId
                  ELSE req.matches[j].playerId

\* the outcome records of a played-out bracket of four: two decided semifinals, the
\* final between their winners, and possibly the third-place match between their
\* losers, recorded in the round of the final
PlayedOut ==
  /\ Len(req.matches) \in {6, 8}
  /\ Decided(1, 2) /\ req.matches[1].round = 1
  /\ Decided(3, 4) /\ req.matches[3].round = 1
  /\ Decided(5, 6) /\ req.matches[5].round = 2
  /\ {req.matches[5].playerId, req.matches[6].playerId} = {WinnerOf(1, 2), WinnerOf(3, 4)}
  /\ Len(req.matches) = 8 =>
       /\ Decided(7, 8) /\ req.matches[7].round = 2
       /\ {req.matches[7].playerId, req.matches[8].playerId}
            = {1, 2, 3, 4} \ {WinnerOf(1, 2), WinnerOf(3, 4)}

\* C13: for the outcome records of a played-out bracket, the third-place match in the
\* round of the final included, the winner of the final is the row of rank 1
C13_FinalWinnerRankedFirst ==
  (SingleElimDone /\ PlayedOut) =>
    \E k \in 1..Len(rows) : rows[k].rank = 1 /\ rows[k].playerId = WinnerOf(5, 6)

RowOfPlayer(pid) == CHOOSE k \in 1..Len(rows) : rows[k].playerId = pid

Seed(pid) == req.options.seeding[pid]

\* a bracket of four whose final, between the winners of two decided semifinals, is
\* recorded LOSS for both finalists, who have different seeds in the seeding map
DoubleLossFinal ==
  /\ Len(req.matches) \in {6, 8}
  /\ Decided(1, 2) /\ Decided(3, 4)
  /\ DoubleLoss(5, 6) /\ req.matches[5].round = 2
  /\ {req.matches[5].playerId, req.matches[6].playerId} = {WinnerOf(1, 2), WinnerOf(3, 4)}
  /\ Seed(req.matches[5].playerId) # None
  /\ Seed(req.matches[6].playerId) # None
  /\ Seed(req.matches[5].playerId) # Seed(req.matches[6].playerId)

\* no row is one round past the final, both finalists have the round of the final, and
\* they hold ranks 1 and 2, the lower seed number first
FinalistsShareTheTop ==
  LET x == req.matches[5].playerId
      y == req.matches[6].playerId
      lo == IF Seed(x) < Seed(y) THEN x ELSE y
      hi == IF Seed(x) < Seed(y) THEN y ELSE x
  IN /\ \A k \in 1..Len(rows) : rows[k].eliminationRound # TopRound + 1
     /\ rows[RowOfPlayer(x)].eliminationRound = TopRound
     /\ rows[RowOfPlayer(y)].eliminationRound = TopRound
     /\ rows[RowOfPlayer(lo)].rank = 1
     /\ rows[RowOfPlayer(hi)].rank = 2

\* C14: when both finalists are recorded LOSS in the final, no row gets
\* eliminationRound = maxRound + 1, both finalists get maxRound, and the finalists
\* take ranks 1 and 2 in ascending order of their seeds
C14_DoubleLossFinalNoChampion ==
  (SingleElimDone /\ DoubleLossFinal) => FinalistsShareTheTop

\* the same when the final is the only match recorded in its round
C14_DoubleLossFinalAlone ==
  (SingleElimDone /\ DoubleLossFinal /\ Len(req.matches) = 6) => FinalistsShareTheTop

\* a double-loss final without a third-place match, the finalist with the higher id
\* holding the lower seed number
C14_WitnessAlone ==
  /\ SingleElimDone /\ DoubleLossFinal /\ Len(req.matches) = 6
  /\ \E k \in 1..Len(rows) :
       rows[k].rank = 1 /\ \E j \in 1..Len(rows) : rows[j].rank = 2 /\ rows[j].playerId < rows[k].playerId

\* a round in which both matches are recorded LOSS for both sides: four rows with the
\* same eliminationRound, a seeded pair among them
C15_SeededPairInOneRound ==
  /\ SingleElimDone
  /\ Len(rows) = 4
  /\ \A k \in 1..4 : rows[k].eliminationRound = 1
  /\ \E i, j \in 1..4 :
       /\ Seed(rows[i].playerId) # None
       /\ Seed(rows[j].playerId) # None
       /\ Seed(rows[i].playerId) < Seed(rows[j].playerId)
       /\ rows[i].rank < rows[j].rank

\* C15: of two rows with equal eliminationRound whose players both have an entry in
\* the seeding map, with different seed numbers, the one with the lower seed number
\* has the smaller rank
C15_LowerSeedRanksBetter ==
  SingleElimDone =>
    \A i, j \in 1..Len(rows) :
      (/\ rows[i].eliminationRound = rows[j].eliminationRound
       /\ Seed(rows[i].playerId) # None
       /\ Seed(rows[j].playerId) # None
       /\ Seed(rows[i].playerId) < Seed(rows[j].playerId))
        => rows[i].rank < rows[j].rank

(* ======================= mergeSwissTopCutStandings ======================= *)

MergePlayers == 3

TopCutSize == 2

\* bySwissOrder: rank ascending, then match points descending, then playerId (the
\* percentages between them are equal in every row here)
bySwissOrder(a, b) ==
  IF a.rank # b.rank THEN a.rank < b.rank
  ELSE IF b.matchPoints # a.matchPoints THEN b.matchPoints < a.matchPoints
  ELSE a.playerId < b.playerId

\* the comparator of topCutSorted: top-cut rank, then playerId
byTopCutRank(a, b) ==
  IF a.rank # b.rank THEN a.rank < b.rank ELSE a.playerId < b.playerId

\* row.rank = idx + 1
renumber(all) == [i \in 1..Len(all) |-> [all[i] EXCEPT !.rank = i]]

\* swissById[pid]: the last Swiss row of the player
swissById(swissStandings, pid) ==
  swissStandings[CHOOSE i \in 1..Len(swissStandings) :
                   /\ swissStandings[i].playerId = pid
                   /\ \A j \in 1..Len(swissStandings) :
                        swissStandings[j].playerId = pid => j <= i]

RECURSIVE mergedFrom(_, _, _, _)
\* for (const tc of topCutSorted) { ... merged.push({ ...base, rank: 0 }) }
mergedFrom(swissStandings, topCutSorted, i, acc) ==
  IF i > Len(topCutSorted) THEN acc
  ELSE IF \A j \in 1..Len(swissStandings) : swissStandings[j].playerId # topCutSorted[i].playerId
  THEN mergedFrom(swissStandings, topCutSorted, i + 1, acc)
  ELSE mergedFrom(swissStandings, topCutSorted, i + 1,
                  Append(acc, [swissById(swissStandings, topCutSorted[i].playerId)
                                 EXCEPT !.rank = 0]))

\* the whole Swiss field, top-cut players included
swissRemainderUnfiltered(swissStandings, seen) ==
  sortBy(swissStandings, [p \in Pairs(swissStandings) |-> bySwissOrder(p[1], p[2])])

\* the Swiss rows of the players not seen in the top cut, in Swiss order
swissRemainder(swissStandings, seen) ==
  LET rest == SelectSeq(swissStandings, LAMBDA row : row.playerId \notin seen)
  IN sortBy(rest, [p \in Pairs(rest) |-> bySwissOrder(p[1], p[2])])

\* the part of the merge after the top-cut rows have been collected
concatenated(swissStandings, merged) ==
  renumber(merged \o swissRemainder(swissStandings, {merged[i].playerId : i \in 1..Len(merged)}))

mergeSwissTopCutStandings(swissStandings, topCutStandings) ==
  IF Len(topCutStandings) = 0
  THEN renumber(sortBy(swissStandings,
                       [p \in Pairs(swissStandings) |-> bySwissOrder(p[1], p[2])]))
  ELSE concatenated(swissStandings,
         mergedFrom(swissStandings,
                    sortBy(topCutStandings,
                           [p \in Pairs(topCutStandings) |-> byTopCutRank(p[1], p[2])]),
                    1, << >>))

\* the lists of at most n rows with different playerIds
Tables(n, Row) ==
  UNION {{t \in [1..k -> Row] : \A i, j \in 1..k : i # j => t[i].playerId # t[j].playerId} :
           k \in 0..n}

SwissTables ==
  Tables(MergePlayers,
         [playerId : 1..MergePlayers, rank : 1..MergePlayers, matchPoints : 0..MaxPoints])

\* the top cut may name a player that the Swiss table does not have
TopCutTables ==
  Tables(TopCutSize,
         [playerId : 1..(MergePlayers + 1), rank : 1..TopCutSize])

MergeInit ==
  /\ hpc = "merge"
  /\ out = << >>
  /\ \E swiss \in SwissTables, topCut \in TopCutTables :
       input = [swissStandings |-> swiss, topCutStandings |-> topCut]
  /\ PairingIdle
  /\ spc = "idle" /\ req = NoRequest /\ rows = << >>
  /\ BracketIdle

MergeStandings ==
  /\ hpc = "merge"
  /\ out' = mergeSwissTopCutStandings(input.swissStandings, input.topCutStandings)
  /\ hpc' = "merged"
  /\ UNCHANGED input
  /\ UNCHANGED pairingVars
  /\ UNCHANGED standingsVars
  /\ UNCHANGED bracketVars

MergeNext == MergeStandings

MergeSpec == MergeInit /\ [][MergeNext]_vars

SwissPlayers == {input.swissStandings[i].playerId : i \in 1..Len(input.swissStandings)}

TopCutPlayers == {input.topCutStandings[i].playerId : i \in 1..Len(input.topCutStandings)}

SwissRank(pid) ==
  input.swissStandings[CHOOSE i \in 1..Len(input.swissStandings) :
                         input.swissStandings[i].playerId = pid].rank

TopCutRank(pid) ==
  input.topCutStandings[CHOOSE i \in 1..Len(input.topCutStandings) :
                          input.topCutStandings[i].playerId = pid].rank

\* C16: the merge returns one row per Swiss player, ranks 1..N in list order: first the
\* top-cut players that are in the Swiss table, by ascending top-cut rank, then the
\* other Swiss players by ascending Swiss rank; top-cut players absent from the Swiss
\* table have no row
C16_MergeTopCutFirst ==
  hpc = "merged" =>
    LET cut == Cardinality(TopCutPlayers \cap SwissPlayers)
    IN /\ Len(out) = Cardinality(SwissPlayers)
       /\ {out[k].playerId : k \in 1..Len(out)} = SwissPlayers
       /\ \A k \in 1..Len(out) : out[k].rank = k
       /\ \A k \in 1..Len(out) : (k <= cut) = (out[k].playerId \in TopCutPlayers)
       /\ \A k, l \in 1..Len(out) :
            k < l =>
              /\ l <= cut => TopCutRank(out[k].playerId) <= TopCutRank(out[l].playerId)
              /\ k > cut => SwissRank(out[k].playerId) <= SwissRank(out[l].playerId)

\* a top cut of two, one of them absent from the Swiss table, the other one not the
\* Swiss leader, and two more Swiss players listed against their Swiss rank
C16_Witness ==
  /\ hpc = "merged"
  /\ Len(out) = 3
  /\ Cardinality(TopCutPlayers) = 2
  /\ Cardinality(TopCutPlayers \ SwissPlayers) = 1
  /\ SwissRank(out[1].playerId) = 3
  /\ SwissRank(out[2].playerId) < SwissRank(out[3].playerId)
  /\ SwissRank(input.swissStandings[1].playerId) > SwissRank(input.swissStandings[2].playerId)

\* a top cut of two Swiss players listed against their top-cut rank
C16_WitnessTwoInCut ==
  /\ hpc = "merged"
  /\ Len(out) = 3
  /\ TopCutPlayers \subseteq SwissPlayers
  /\ Len(input.topCutStandings) = 2
  /\ input.topCutStandings[1].rank > input.topCutStandings[2].rank
  /\ out[1].playerId = input.topCutStandings[2].playerId

(* ======================= computeStandingsSafe ======================= *)

SafePlayers == 2

SafeRecords == 2

\* validateMatch: the errors pushed for one match
validateMatchAnyOpponent(m) ==
  (IF m.round < 1 THEN {"round"} ELSE {})
  \cup (IF m.opponentId = None /\ m.result # BYE THEN {"null opponent without BYE"} ELSE {})
  \cup (IF m.opponentId # None /\ m.result = BYE THEN {"BYE with opponent"} ELSE {})

validateMatch(m) ==
  (IF m.round < 1 THEN {"round"} ELSE {})
  \cup (IF m.opponentId = None /\ m.result # BYE THEN {"null opponent without BYE"} ELSE {})
  \cup (IF m.opponentId # None /\ m.result = BYE THEN {"BYE with opponent"} ELSE {})
  \cup (IF m.opponentId # None /\ m.playerId = m.opponentId THEN {"self"} ELSE {})

\* keyOf: the round and the two ids in ascending order
keyOf(a, b, round) == IF a < b THEN <<round, a, b>> ELSE <<round, b, a>>

\* seen[k].count
mirrorCount(matches, k) ==
  Cardinality({i \in 1..Len(matches) :
                 /\ matches[i].opponentId # None
                 /\ keyOf(matches[i].playerId, matches[i].opponentId, matches[i].round) = k})

\* validateRoundRobinMirrors: the keys reported as missing their mirrored entry
validateRoundRobinMirrors(matches, acceptSingleEntryMatches) ==
  IF acceptSingleEntryMatches THEN {}
  ELSE {k \in {keyOf(matches[i].playerId, matches[i].opponentId, matches[i].round) :
                 i \in {j \in 1..Len(matches) : matches[j].opponentId # None}} :
          mirrorCount(matches, k) = 1}

\* validateComputeStandingsRequest: ok, and the errors collected
validateComputeStandingsRequest(x) ==
  LET matchErrors == UNION {validateMatch(x.matches[i]) : i \in 1..Len(x.matches)}
      matchesOk == matchErrors = {}
      accept == x.options.acceptSingleEntryMatches = "true"
      mirrorErrors == IF x.mode = "roundrobin" /\ matchesOk
                      THEN validateRoundRobinMirrors(x.matches, accept) ELSE {}
  IN [ok |-> matchErrors = {} /\ mirrorErrors = {},
      errors |-> [matches |-> matchErrors, mirrors |-> mirrorErrors]]

\* the records a caller may send, malformed ones included
RawRecords ==
  [round : 0..MaxRound, playerId : 1..SafePlayers, opponentId : {None} \cup (1..SafePlayers),
   result : {WIN, LOSS, BYE}, penalties : {0}]

SafeInit ==
  /\ spc = "safe"
  /\ rows = << >>
  /\ out = << >>
  /\ \E mode \in Modes, k \in 0..SafeRecords, accept \in {"omitted", "false", "true"} :
       \E recs \in [1..k -> RawRecords] :
         req = [mode |-> mode, matches |-> WithIds(recs),
                options |-> [eventId |-> DefaultEventId, seeding |-> NoSeeding,
                             acceptSingleEntryMatches |-> accept]]
  /\ PairingIdle
  /\ hpc = "idle" /\ input = << >>
  /\ BracketIdle

\* if (!r.ok) throw new ValidationException(r.errors)
SafeRejects ==
  /\ spc = "safe"
  /\ ~validateComputeStandingsRequest(req).ok
  /\ out' = [name |-> "ValidationException", errors |-> validateComputeStandingsRequest(req).errors]
  /\ spc' = "rejected"
  /\ UNCHANGED <<req, rows, hpc, input>>
  /\ UNCHANGED pairingVars
  /\ UNCHANGED bracketVars

\* return computeStandings(r.value)
SafeComputes ==
  /\ spc = "safe"
  /\ validateComputeStandingsRequest(req).ok
  /\ rows' = computeStandings(req)
  /\ spc' = "done"
  /\ UNCHANGED <<req, out, hpc, input>>
  /\ UNCHANGED pairingVars
  /\ UNCHANGED bracketVars

SafeNext == SafeRejects \/ SafeComputes

SafeSpec == SafeInit /\ [][SafeNext]_vars

SafeReturned == spc \in {"done", "rejected"}

Rejected == spc = "rejected" /\ out.name = "ValidationException" /\ rows = << >>

Malformed(m) ==
  \/ m.round < 1
  \/ m.opponentId = None /\ m.result # BYE
  \/ m.result = BYE /\ m.opponentId # None
  \/ m.playerId = m.opponentId

\* C17: a request with a match whose round is below 1, whose opponentId is null without
\* the result BYE, whose result is BYE with an opponent, or whose playerId equals its
\* opponentId is rejected with a ValidationException and no engine has produced rows
C17_MalformedMatchRejected ==
  (SafeReturned /\ \E i \in 1..Len(req.matches) : Malformed(req.matches[i])) => Rejected

\* a rejected request whose only flaw is a match of a player against themselves
C17_Witness ==
  /\ Rejected
  /\ Len(req.matches) = 2
  /\ \E i \in 1..2 : req.matches[i].playerId = req.matches[i].opponentId
  /\ \A i \in 1..2 : req.matches[i].round >= 1 /\ req.matches[i].result # BYE
                     /\ req.matches[i].opponentId # None

\* a well-formed request goes to the engine
C17_WitnessAccepted ==
  /\ spc = "done"
  /\ Len(rows) = 2

\* record i has an opponent and no record gives the opponent's side of that round
MissingMirror(i) ==
  /\ req.matches[i].opponentId # None
  /\ \A j \in 1..Len(req.matches) :
       ~(/\ req.matches[j].round = req.matches[i].round
         /\ req.matches[j].playerId = req.matches[i].opponentId
         /\ req.matches[j].opponentId = req.matches[i].playerId)

\* C18: in roundrobin mode with acceptSingleEntryMatches false or omitted, a request in
\* which some non-bye record has no mirrored record from the opponent is rejected
C18_MissingMirrorRejected ==
  (/\ SafeReturned
   /\ req.mode = "roundrobin"
   /\ req.options.acceptSingleEntryMatches \in {"false", "omitted"}
   /\ \E i \in 1..Len(req.matches) : MissingMirror(i)) => Rejected

(* ======================= the single-elimination bracket ======================= *)

MaxEntrants == 4

MaxCalls == 2

\* match ids: "R<round>-M<index>" is <<round, index>>, "BRONZE" is <<0, 1>>, and
\* <<0, 0>> stands for an absent winnerTo, loserTo or fromMatchId
makeMatchId(round, index) == <<round, index>>

BronzeId == <<0, 1>>

NoId == <<0, 0>>

SeedSlot(seed, playerId) == [kind |-> "seed", seed |-> seed, playerId |-> playerId, fromMatchId |-> NoId]

WinnerSlot(fromMatchId) == [kind |-> "winner", seed |-> 0, playerId |-> None, fromMatchId |-> fromMatchId]

ByeSlot == [kind |-> "bye", seed |-> 0, playerId |-> None, fromMatchId |-> NoId]

\* a slot that is undefined
NoSlot == [kind |-> "none", seed |-> 0, playerId |-> None, fromMatchId |-> NoId]

NoResult == [winnerId |-> None, loserId |-> None, reason |-> "none"]

RECURSIVE nextPow2FromAbove(_, _)
\* the loop run while p <= n: the power of two strictly above n
nextPow2FromAbove(p, n) == IF p <= n THEN nextPow2FromAbove(2 * p, n) ELSE p

RECURSIVE nextPow2From(_, _)
nextPow2From(p, n) == IF p < n THEN nextPow2From(2 * p, n) ELSE p

nextPow2(n) == nextPow2From(1, n)

\* every s of order followed by s + order.length
interleaveShifted(order) ==
  [i \in 1..(2 * Len(order)) |->
     IF i % 2 = 1 THEN order[(i + 1) \div 2] ELSE Len(order) + order[i \div 2]]

\* next.push(s); next.push(n + 1 - s) for every s of order
interleave(order) ==
  [i \in 1..(2 * Len(order)) |->
     IF i % 2 = 1 THEN order[(i + 1) \div 2] ELSE 2 * Len(order) + 1 - order[i \div 2]]

RECURSIVE seedPositionsFrom(_, _)
seedPositionsFrom(order, size) ==
  IF Len(order) < size THEN seedPositionsFrom(interleave(order), size) ELSE order

\* the seeds in ascending order, position by position
seedPositionsAscending(size) == [i \in 1..size |-> i]

seedPositions(size) == seedPositionsFrom(<<1, 2>>, size)

\* slotPlayerId: the player of a seed slot, undefined (None) for any other slot
slotPlayerId(s) == IF s.kind = "seed" THEN s.playerId ELSE None

isWinnerSlotOf(s, fromId) == s.kind = "winner" /\ s.fromMatchId = fromId

\* the number of matches of a round, for a bracket whose round 1 has first matches
RECURSIVE roundLength(_, _)
roundLength(first, round) == IF round = 1 THEN first ELSE roundLength(first, round - 1) \div 2

RECURSIVE roundsFrom(_, _)
\* rounds.length: rounds are added while the previous one has more than one match
roundsFrom(length, count) == IF length > 1 THEN roundsFrom(length \div 2, count + 1) ELSE count

\* [...seedsIn].sort((a, b) => a.seed - b.seed)
sortedSeeds(seedsIn) ==
  sortBy(seedsIn, [p \in Pairs(seedsIn) |-> p[1].seed < p[2].seed])

\* seedMap.get(seedNum): the indices of the entries set under that seed number, the
\* last of which is the one the map keeps
seedMapHits(seeds, seedNum) == {k \in 1..Len(seeds) : seeds[k].seed = seedNum}

\* slots[i], i counted from 0: the entrant seeded at that position, or a BYE
slotAt(i, size, seeds, positions) ==
  IF i >= size THEN NoSlot
  ELSE IF seedMapHits(seeds, positions[i + 1]) = {} THEN ByeSlot
  ELSE LET k == CHOOSE k \in seedMapHits(seeds, positions[i + 1]) :
                  \A j \in seedMapHits(seeds, positions[i + 1]) : k >= j
       IN SeedSlot(seeds[k].seed, seeds[k].playerId)

\* the matches by id, given the sorted seeds and the computed position order
matchesOf(seeds, positions, size, first, rounds, bronze) ==
  [id \in {id \in (1..rounds) \X (1..first) : id[2] <= roundLength(first, id[1])}
          \cup (IF bronze THEN {BronzeId} ELSE {}) |->
     IF id = BronzeId
     THEN [id |-> id, round |-> rounds, indexInRound |-> 1,
           a |-> WinnerSlot(makeMatchId(rounds - 1, 1)),
           b |-> WinnerSlot(makeMatchId(rounds - 1, 2)),
           winnerTo |-> NoId, loserTo |-> NoId, result |-> NoResult]
     ELSE [id |-> id, round |-> id[1], indexInRound |-> id[2],
           a |-> IF id[1] = 1 THEN slotAt(2 * id[2] - 2, size, seeds, positions)
                 ELSE WinnerSlot(makeMatchId(id[1] - 1, 2 * id[2] - 1)),
           b |-> IF id[1] = 1 THEN slotAt(2 * id[2] - 1, size, seeds, positions)
                 ELSE WinnerSlot(makeMatchId(id[1] - 1, 2 * id[2])),
           winnerTo |-> IF id[1] < rounds THEN makeMatchId(id[1] + 1, (id[2] + 1) \div 2)
                        ELSE NoId,
           loserTo |-> IF bronze /\ id[1] = rounds - 1 THEN BronzeId ELSE NoId,
           result |-> NoResult]]

\* round 1 has one match per pair of positions 0, 2, 4, ... below size
firstRound(size) == (size + 1) \div 2

\* a bronze match is built when asked for and the round before the final has two matches
hasBronze(size, thirdPlace) ==
  /\ thirdPlace
  /\ roundsFrom(firstRound(size), 1) >= 2
  /\ roundLength(firstRound(size), roundsFrom(firstRound(size), 1) - 1) = 2

\* the bracket as built before autoAdvanceByes: the matches by id
wired(seedsIn, thirdPlace) ==
  matchesOf(sortedSeeds(seedsIn), seedPositions(nextPow2(Len(seedsIn))),
            nextPow2(Len(seedsIn)), firstRound(nextPow2(Len(seedsIn))),
            roundsFrom(firstRound(nextPow2(Len(seedsIn))), 1),
            hasBronze(nextPow2(Len(seedsIn)), thirdPlace))

\* bracket.meta
meta(seedsIn, thirdPlace) ==
  [size |-> nextPow2(Len(seedsIn)),
   entrants |-> Len(seedsIn),
   byes |-> nextPow2(Len(seedsIn)) - Len(seedsIn),
   thirdPlace |-> thirdPlace]

\* the winner applyResult resolves, None when it throws "winner not resolved"
winnerOf(match, outcome) ==
  LET aId == slotPlayerId(match.a)
      bId == slotPlayerId(match.b)
      named == IF outcome.winner = "A" THEN aId
               ELSE IF outcome.winner = "B" THEN bId ELSE outcome.playerId
      byeFallback == IF named = None /\ outcome.loserReason = "bye"
                     THEN (IF aId # None /\ bId = None THEN aId
                           ELSE IF bId # None /\ aId = None THEN bId ELSE None)
                     ELSE named
  IN IF byeFallback = None /\ ((aId # None) # (bId # None))
     THEN (IF aId # None THEN aId ELSE bId)
     ELSE byeFallback

\* the winner goes to the first open slot of the next match, whatever slot is wired
advancedFirstOpen(next, fromId, winnerId) ==
  IF slotPlayerId(next.a) = None
  THEN [next EXCEPT !.a = SeedSlot(0, winnerId)]
  ELSE [next EXCEPT !.b = SeedSlot(0, winnerId)]

\* the next match after the winner of match fromId has been advanced into it
advanced(next, fromId, winnerId) ==
  IF isWinnerSlotOf(next.a, fromId) THEN [next EXCEPT !.a = SeedSlot(0, winnerId)]
  ELSE IF isWinnerSlotOf(next.b, fromId) THEN [next EXCEPT !.b = SeedSlot(0, winnerId)]
  ELSE IF slotPlayerId(next.a) = None THEN [next EXCEPT !.a = SeedSlot(0, winnerId)]
  ELSE [next EXCEPT !.b = SeedSlot(0, winnerId)]

\* the loser always written into slot a
routedToA(bronze, loserId) == [bronze EXCEPT !.a = SeedSlot(0, loserId)]

\* the bronze match after a semifinal loser has been routed into it
routed(bronze, loserId) ==
  IF slotPlayerId(bronze.a) = None THEN [bronze EXCEPT !.a = SeedSlot(0, loserId)]
  ELSE [bronze EXCEPT !.b = SeedSlot(0, loserId)]

\* applyResult throws: unknown match, no players, or no winner resolved
throws(matches, matchId, outcome) ==
  \/ matchId \notin DOMAIN matches
  \/ slotPlayerId(matches[matchId].a) = None /\ slotPlayerId(matches[matchId].b) = None
  \/ winnerOf(matches[matchId], outcome) = None

\* the three writes of applyResult with the resolved winner and loser
stored(matches, match, winnerId, loserId, outcome) ==
  [id \in DOMAIN matches |->
     IF id = match.id
     THEN [match EXCEPT !.result = [winnerId |-> winnerId, loserId |-> loserId,
                                    reason |-> outcome.loserReason]]
     ELSE IF id = match.winnerTo THEN advanced(matches[id], match.id, winnerId)
     ELSE IF id = match.loserTo /\ loserId # None THEN routed(matches[id], loserId)
     ELSE matches[id]]

\* applyResult: the matches after a call that returns
applyResult(matches, matchId, outcome) ==
  stored(matches, matches[matchId], winnerOf(matches[matchId], outcome),
         IF winnerOf(matches[matchId], outcome) = slotPlayerId(matches[matchId].a)
         THEN slotPlayerId(matches[matchId].b) ELSE slotPlayerId(matches[matchId].a),
         outcome)

\* a call of applyResult on the bracket b = [matches, calls]: the calls that return are counted
called(b, matchId, outcome) ==
  IF throws(b.matches, matchId, outcome) THEN b
  ELSE [matches |-> applyResult(b.matches, matchId, outcome),
        calls |-> [b.calls EXCEPT ![matchId] = Min(@ + 1, MaxCalls + 1)]]

ByOutcome(pid) == [winner |-> "id", playerId |-> pid, loserReason |-> "bye"]

RECURSIVE advanceFrom(_, _, _)
\* for (const m of r1) { ... }
advanceFrom(b, i, first) ==
  IF i > first THEN b
  ELSE LET m == b.matches[makeMatchId(1, i)]
           aBye == m.a.kind = "bye"
           bBye == m.b.kind = "bye"
       IN IF aBye /\ ~bBye /\ slotPlayerId(m.b) # None
          THEN advanceFrom(called(b, m.id, ByOutcome(slotPlayerId(m.b))), i + 1, first)
          ELSE IF bBye /\ ~aBye /\ slotPlayerId(m.a) # None
          THEN advanceFrom(called(b, m.id, ByOutcome(slotPlayerId(m.a))), i + 1, first)
          ELSE advanceFrom(b, i + 1, first)

autoAdvanceByes(b) ==
  advanceFrom(b, 1, Cardinality({id \in DOMAIN b.matches : id[1] = 1}))

generateSingleEliminationBracket(seedsIn, thirdPlace) ==
  autoAdvanceByes([matches |-> wired(seedsIn, thirdPlace),
                   calls |-> [id \in DOMAIN wired(seedsIn, thirdPlace) |-> 0]])

\* n entrants carrying the seeds 1..n, the player of seed k named k
Seeded(n) == [k \in 1..n |-> [playerId |-> k, seed |-> k]]

Outcomes ==
  [winner : {"A", "B"}, playerId : {None}, loserReason : {"none"}]
  \cup [winner : {"id"}, playerId : 1..MaxEntrants, loserReason : {"none"}]

BracketInit ==
  /\ hpc = "bracket"
  /\ out = << >>
  /\ \E entrants \in 1..MaxEntrants, thirdPlace \in BOOLEAN :
       /\ input = [entrants |-> entrants, thirdPlace |-> thirdPlace]
       /\ bracket = generateSingleEliminationBracket(Seeded(entrants), thirdPlace).matches
       /\ calls = generateSingleEliminationBracket(Seeded(entrants), thirdPlace).calls
  /\ PairingIdle
  /\ spc = "idle" /\ req = NoRequest /\ rows = << >>

Written(b) ==
  /\ bracket' = b.matches
  /\ calls' = b.calls

\* applyResult(bracket, matchId, outcome) returns
ApplyResult ==
  /\ hpc = "bracket"
  /\ \E matchId \in DOMAIN bracket, outcome \in Outcomes :
       /\ calls[matchId] < MaxCalls
       /\ ~throws(bracket, matchId, outcome)
       /\ Written(called([matches |-> bracket, calls |-> calls], matchId, outcome))
  /\ UNCHANGED helperVars
  /\ UNCHANGED pairingVars
  /\ UNCHANGED standingsVars

\* autoAdvanceByes(bracket)
AutoAdvanceByes ==
  /\ hpc = "bracket"
  /\ \A id \in DOMAIN bracket : calls[id] < MaxCalls
  /\ Written(autoAdvanceByes([matches |-> bracket, calls |-> calls]))
  /\ UNCHANGED helperVars
  /\ UNCHANGED pairingVars
  /\ UNCHANGED standingsVars

BracketNext == ApplyResult \/ AutoAdvanceByes

BracketSpec == BracketInit /\ [][BracketNext]_vars

(* ---------------- generateSingleEliminationBracket called on any seed list ---------------- *)

GenEntrants == 5

GenSeeds == 5

\* the player of the i-th entry of seedsIn
EntrantName(i) == 10 + i

\* the seed lists handed in: any seed numbers >= 1, in any order, one player per entry
SeedLists ==
  UNION {[1..n -> 1..GenSeeds] : n \in 0..GenEntrants}

seedsInOf(numbers) ==
  [i \in 1..Len(numbers) |-> [playerId |-> EntrantName(i), seed |-> numbers[i]]]

GenerateInit ==
  /\ hpc = "generate"
  /\ out = << >>
  /\ \E numbers \in SeedLists, thirdPlace \in BOOLEAN :
       input = [seedsIn |-> seedsInOf(numbers), thirdPlace |-> thirdPlace]
  /\ PairingIdle
  /\ BracketIdle
  /\ spc = "idle" /\ req = NoRequest /\ rows = << >>

\* generateSingleEliminationBracket(seedsIn, opts) returns the bracket
Generate ==
  /\ hpc = "generate"
  /\ Len(input.seedsIn) > 0
  /\ out' = [matches |-> generateSingleEliminationBracket(input.seedsIn, input.thirdPlace).matches,
             meta |-> meta(input.seedsIn, input.thirdPlace)]
  /\ hpc' = "generated"
  /\ UNCHANGED input
  /\ UNCHANGED pairingVars
  /\ UNCHANGED standingsVars
  /\ UNCHANGED bracketVars

\* if (!seedsIn.length) throw new Error('... no entrants')
GenerateThrows ==
  /\ hpc = "generate"
  /\ Len(input.seedsIn) = 0
  /\ out' = [name |-> "Error"]
  /\ hpc' = "threw"
  /\ UNCHANGED input
  /\ UNCHANGED pairingVars
  /\ UNCHANGED standingsVars
  /\ UNCHANGED bracketVars

GenerateNext == Generate \/ GenerateThrows

GenerateSpec == GenerateInit /\ [][GenerateNext]_vars

(* ---------------- seedPositions called on any size ---------------- *)

MaxSize == 64

RECURSIVE BitAnd(_, _)
\* a & b for a >= 0
BitAnd(a, b) ==
  IF a = 0 \/ b = 0 THEN 0
  ELSE (a % 2) * (b % 2) + 2 * BitAnd(a \div 2, (b - (b % 2)) \div 2)

SeedPositionsInit ==
  /\ hpc = "positions"
  /\ out = << >>
  /\ \E size \in 0..MaxSize : input = [size |-> size]
  /\ PairingIdle
  /\ BracketIdle
  /\ spc = "idle" /\ req = NoRequest /\ rows = << >>

\* seedPositions(size) returns the order
SeedPositions ==
  /\ hpc = "positions"
  /\ BitAnd(input.size, input.size - 1) = 0
  /\ out' = [order |-> seedPositions(input.size)]
  /\ hpc' = "positioned"
  /\ UNCHANGED input
  /\ UNCHANGED pairingVars
  /\ UNCHANGED standingsVars
  /\ UNCHANGED bracketVars

\* if (size & (size - 1)) throw new Error('seedPositions: size must be power of two')
SeedPositionsThrows ==
  /\ hpc = "positions"
  /\ BitAnd(input.size, input.size - 1) # 0
  /\ out' = [name |-> "Error"]
  /\ hpc' = "threw"
  /\ UNCHANGED input
  /\ UNCHANGED pairingVars
  /\ UNCHANGED standingsVars
  /\ UNCHANGED bracketVars

SeedPositionsNext == SeedPositions \/ SeedPositionsThrows

SeedPositionsSpec == SeedPositionsInit /\ [][SeedPositionsNext]_vars

(* ======================= properties of the bracket ======================= *)

\* the matches of round 2 and later, each fed by the winners of two matches
FedMatches == {id \in DOMAIN bracket : id[1] >= 2}

FeederA(id) == makeMatchId(id[1] - 1, 2 * id[2] - 1)

FeederB(id) == makeMatchId(id[1] - 1, 2 * id[2])

HoldsWinnerOf(slot, feeder) ==
  /\ slot.kind = "seed"
  /\ bracket[feeder].result.winnerId # None
  /\ slot.playerId = bracket[feeder].result.winnerId

\* C19: once applyResult has been called exactly once for each of the two matches that
\* feed a match M, M's slot a holds the recorded winner of the match wired to slot a
\* and M's slot b the recorded winner of the match wired to slot b
C19_WinnersInWiredSlots ==
  hpc = "bracket" =>
    \A id \in FedMatches :
      (calls[FeederA(id)] = 1 /\ calls[FeederB(id)] = 1) =>
        /\ HoldsWinnerOf(bracket[id].a, FeederA(id))
        /\ HoldsWinnerOf(bracket[id].b, FeederB(id))

\* four entrants: both semifinals reported once by the caller, each won by the entrant
\* in slot b, and the final holds the two winners in the wired slots
C19_Witness ==
  /\ hpc = "bracket"
  /\ input.entrants = 4
  /\ calls[makeMatchId(1, 1)] = 1
  /\ calls[makeMatchId(1, 2)] = 1
  /\ bracket[makeMatchId(1, 1)].result.winnerId = 4
  /\ bracket[makeMatchId(1, 2)].result.winnerId = 3
  /\ bracket[makeMatchId(2, 1)].a.playerId = 4
  /\ bracket[makeMatchId(2, 1)].b.playerId = 3

\* three entrants: one feeder advanced through its BYE on generation, the other reported
C19_WitnessBye ==
  /\ hpc = "bracket"
  /\ input.entrants = 3
  /\ calls[makeMatchId(1, 1)] = 1
  /\ calls[makeMatchId(1, 2)] = 1
  /\ bracket[makeMatchId(1, 1)].result.reason = "bye"
  /\ bracket[makeMatchId(2, 1)].a.playerId = 1
  /\ bracket[makeMatchId(2, 1)].b.playerId = 3

\* the two slots of every match
SlotsOf(matches) == [id \in DOMAIN matches |-> <<matches[id].a, matches[id].b>>]

\* the bracket is as generateSingleEliminationBracket returned it
Fresh ==
  /\ hpc = "bracket"
  /\ bracket = generateSingleEliminationBracket(Seeded(input.entrants), input.thirdPlace).matches
  /\ calls = generateSingleEliminationBracket(Seeded(input.entrants), input.thirdPlace).calls

\* C20: autoAdvanceByes called on a bracket just returned by
\* generateSingleEliminationBracket leaves every slot of every match unchanged
C20_AutoAdvanceIdempotent ==
  Fresh =>
    SlotsOf(autoAdvanceByes([matches |-> bracket, calls |-> calls]).matches) = SlotsOf(bracket)

\* the same as a step: no AutoAdvanceByes step from a generated bracket changes a slot
C20_AutoAdvanceStepKeepsSlots ==
  [][(Fresh /\ AutoAdvanceByes) => SlotsOf(bracket') = SlotsOf(bracket)]_vars

\* brackets without a BYE are left alone by a second autoAdvanceByes
C20_WitnessNoBye ==
  /\ hpc = "bracket"
  /\ input.entrants = 4
  /\ Fresh
  /\ autoAdvanceByes([matches |-> bracket, calls |-> calls]).matches = bracket

(* ======================= properties of bracket generation ======================= *)

Generated == hpc = "generated"

\* the number of matches of round r, the bronze match left aside
MatchesInRound(r) ==
  Cardinality({id \in DOMAIN out.matches : id # BronzeId /\ out.matches[id].round = r})

\* the rounds that have a match
RoundsBuilt == {out.matches[id].round : id \in DOMAIN out.matches \ {BronzeId}}

LastRoundBuilt == CHOOSE r \in RoundsBuilt : \A q \in RoundsBuilt : q <= r

RECURSIVE IsPowerOfTwo(_)
IsPowerOfTwo(x) == x = 1 \/ (x > 1 /\ x % 2 = 0 /\ IsPowerOfTwo(x \div 2))

\* size is the smallest power of two >= n, and meta reports n and size - n
SizedFor(n) ==
  /\ IsPowerOfTwo(out.meta.size)
  /\ out.meta.size >= n
  /\ \A x \in n..out.meta.size : IsPowerOfTwo(x) => x = out.meta.size
  /\ out.meta.entrants = n
  /\ out.meta.byes = out.meta.size - n

\* round r has size / 2^r matches, for every round that was built
RoundsHalve == \A r \in RoundsBuilt : MatchesInRound(r) * (2 ^ r) = out.meta.size

\* matches 2k-1 and 2k of every non-final round both feed match k of the next round
WinnersWired ==
  \A r \in RoundsBuilt \ {LastRoundBuilt} :
    \A k \in 1..MatchesInRound(r + 1) :
      /\ makeMatchId(r, 2 * k - 1) \in DOMAIN out.matches
      /\ makeMatchId(r, 2 * k) \in DOMAIN out.matches
      /\ out.matches[makeMatchId(r, 2 * k - 1)].winnerTo = makeMatchId(r + 1, k)
      /\ out.matches[makeMatchId(r, 2 * k)].winnerTo = makeMatchId(r + 1, k)

Positioned == hpc = "positioned"

IsPermutationOf(order, n) ==
  /\ Len(order) = n
  /\ \A seed \in 1..n : Cardinality({i \in 1..n : order[i] = seed}) = 1

\* the seeds at the 0-based positions 2k and 2k+1 sum to n + 1
PairsSumTo(order, n) ==
  \A k \in 0..((Len(order) \div 2) - 1) : order[2 * k + 1] + order[2 * k + 2] = n + 1

\* C22: for every power-of-two size >= 2, seedPositions(size) is a permutation of
\* 1..size in which the two seeds of one first-round match (positions 2k and 2k+1)
\* sum to size + 1
C22_SeedPositionsInterleaved ==
  (hpc \in {"positioned", "threw"} /\ input.size >= 2 /\ IsPowerOfTwo(input.size)) =>
    /\ Positioned
    /\ IsPermutationOf(out.order, input.size)
    /\ PairsSumTo(out.order, input.size)

\* size 8 gives the order of the README: 1, 8, 4, 5, 2, 7, 3, 6
C22_Witness ==
  /\ Positioned
  /\ input.size = 8
  /\ out.order = <<1, 8, 4, 5, 2, 7, 3, 6>>

(* ======================= properties of the BYEs of round 1 ======================= *)

\* the n entrants carry the seeds 1..n
SeedsOneToN ==
  {input.seedsIn[i].seed : i \in 1..Len(input.seedsIn)} = 1..Len(input.seedsIn)

RoundOne == {id \in DOMAIN out.matches : id # BronzeId /\ out.matches[id].round = 1}

\* the round-1 slots, each with the slot it is opposite to
RoundOneSlots ==
  {<<out.matches[id].a, out.matches[id].b>> : id \in RoundOne}
  \cup {<<out.matches[id].b, out.matches[id].a>> : id \in RoundOne}

\* the slots opposite a BYE slot
OppositeBye == {p[2] : p \in {q \in RoundOneSlots : q[1].kind = "bye"}}

ByeSlotCount ==
  Cardinality({id \in RoundOne : out.matches[id].a.kind = "bye"})
  + Cardinality({id \in RoundOne : out.matches[id].b.kind = "bye"})

PlayerOfSeed(seed) ==
  input.seedsIn[CHOOSE i \in 1..Len(input.seedsIn) : input.seedsIn[i].seed = seed].playerId

\* the players found in the slots of round 2
InRoundTwo ==
  {slotPlayerId(p[1]) :
     p \in {<<out.matches[id].a>> : id \in {x \in DOMAIN out.matches : x # BronzeId /\ out.matches[x].round = 2}}
            \cup {<<out.matches[id].b>> : id \in {x \in DOMAIN out.matches : x # BronzeId /\ out.matches[x].round = 2}}}
  \ {None}

\* the players whose round-1 match carries a result when the bracket is returned
AutoAdvanced ==
  {out.matches[id].result.winnerId : id \in {x \in RoundOne : out.matches[x].result # NoResult}}

\* C23: when n entrants carry the seeds 1..n and the bracket size exceeds n, the size - n
\* round-1 BYE slots are opposite exactly the seeds 1..size-n, and exactly those entrants
\* are auto-advanced to round 2
C23_ByesForTopSeeds ==
  (Generated /\ SeedsOneToN /\ out.meta.size > Len(input.seedsIn)) =>
    /\ ByeSlotCount = out.meta.size - Len(input.seedsIn)
    /\ \A slot \in OppositeBye : slot.kind = "seed"
    /\ {slot.seed : slot \in OppositeBye} = 1..(out.meta.size - Len(input.seedsIn))
    /\ AutoAdvanced = {PlayerOfSeed(seed) : seed \in 1..(out.meta.size - Len(input.seedsIn))}
    /\ InRoundTwo = AutoAdvanced

\* five entrants handed in out of seed order: seeds 1, 2 and 3 get the three BYEs
C23_Witness ==
  /\ Generated
  /\ SeedsOneToN
  /\ Len(input.seedsIn) = 5
  /\ input.seedsIn[1].seed = 3
  /\ ByeSlotCount = 3
  /\ InRoundTwo = {PlayerOfSeed(1), PlayerOfSeed(2), PlayerOfSeed(3)}

(* ======================= properties of the bronze match ======================= *)

WithBronze == hpc = "bracket" /\ BronzeId \in DOMAIN bracket

\* the two semifinals: the matches whose loser is routed to the bronze match
Semifinals == {id \in DOMAIN bracket : bracket[id].loserTo = BronzeId}

InBronze == {slotPlayerId(bracket[BronzeId].a), slotPlayerId(bracket[BronzeId].b)} \ {None}

SemifinalWinners == {bracket[id].result.winnerId : id \in Semifinals} \ {None}

SemifinalLosers == {bracket[id].result.loserId : id \in Semifinals} \ {None}

BronzeHoldsTheTwoLosers ==
  /\ bracket[BronzeId].a.kind = "seed"
  /\ bracket[BronzeId].b.kind = "seed"
  /\ bracket[BronzeId].a.playerId # bracket[BronzeId].b.playerId
  /\ InBronze = SemifinalLosers

WonByParticipant(id) ==
  bracket[id].result.winnerId \in {slotPlayerId(bracket[id].a), slotPlayerId(bracket[id].b)}

\* every match reported so far was reported once and won by one of its players
ReportedRegularly ==
  \A id \in DOMAIN bracket :
    calls[id] = 0 \/ (calls[id] = 1 /\ (bracket[id].result # NoResult => WonByParticipant(id)))

ActivePosition(id) ==
  Cardinality({j \in 1..(Position(id) - 1) : ~standings[j].retired})

\* the unmatched competitors outside the top protectTopN positions
Unprotected(ids) == {id \in Range(ids) : ActivePosition(id) >= protectTopN}

\* the k-th downfloat of the latest group took the right competitor
PickedLowest(k) ==
  IF Unprotected(lastGroup.unmatched[k]) # {}
  THEN lastGroup.downfloated[k] = Lowest(Unprotected(lastGroup.unmatched[k]))
  ELSE lastGroup.downfloated[k] = Lowest(Range(lastGroup.unmatched[k]))

\* C25: when a group's search leaves competitors unmatched, the competitor downfloated
\* is the lowest-ranked unmatched competitor of that group outside the top protectTopN
\* standings positions; a protected one is downfloated only when no unprotected
\* competitor is unmatched
C25_DownfloatLowestUnprotected ==
  \A k \in 1..Len(lastGroup.downfloated) : PickedLowest(k)

\* a group that holds an inbound downfloater behind its own members downfloats again,
\* within the step budget
C25_WitnessInbound ==
  /\ Len(lastGroup.downfloated) >= 1
  /\ ~lastGroup.exceeded
  /\ Len(lastGroup.ids) >= 3
  /\ Position(lastGroup.ids[Len(lastGroup.ids)]) < Position(lastGroup.ids[1])

\* the competitors paired by the step
NewlyPaired ==
  {pairings'[k].a : k \in (Len(pairings) + 1)..Len(pairings')}
  \cup {pairings'[k].b : k \in (Len(pairings) + 1)..Len(pairings')}

\* the groups below the one processed, with the competitors moved down behind the
\* members of the next-lower group, or alone in a new terminal group
MovedBelow(picks) ==
  IF Len(work) >= 2 THEN [Tail(work) EXCEPT ![1].ids = @ \o picks]
  ELSE IF picks = << >> THEN << >>
  ELSE <<[mp |-> NegativeInfinity, ids |-> picks]>>

\* one iteration of the group loop: every downfloat takes one unmatched competitor of
\* the group processed, puts it in the next-lower group and adds one to its counter
DownfloatsOfStep(picks) ==
  /\ \A k \in 1..Len(picks) :
       /\ picks[k] \in Range(Head(work).ids) \cap unpaired
       /\ picks[k] \notin NewlyPaired
       /\ \A j \in 1..Len(picks) : picks[j] = picks[k] => j = k
  /\ work' = MovedBelow(picks)
  /\ \A p \in DOMAIN downfloatCounts :
       downfloatCounts[p] < MaxDownfloats =>
         downfloatCounts'[p] = downfloatCounts[p] + (IF p \in Range(picks) THEN 1 ELSE 0)

\* C26: each downfloat moves exactly one unmatched competitor from the group being
\* processed into the next-lower score group (a new terminal group if there is none)
\* and increases that competitor's counter by exactly one; in the result downfloats[p]
\* is the number of times p was moved down, 0 for every active competitor never moved
C26_DownfloatsCounted ==
  /\ [][(pc = "groups" /\ pc' = "groups") => DownfloatsOfStep(lastGroup'.downfloated)]_vars
  /\ [](Done => (DOMAIN downfloatCounts = ActiveIds
                  /\ \A p \in ActiveIds : downfloatCounts[p] = movedDown[p]))

\* a returned call in which one competitor went down two groups and another none
C26_Witness ==
  /\ Done
  /\ \E p \in ActiveIds : movedDown[p] = 2 /\ downfloatCounts[p] = 2
  /\ \E p \in ActiveIds : movedDown[p] = 0 /\ downfloatCounts[p] = 0
  /\ Len(pairings) = 2

(* ======================= properties of the search inside a group ======================= *)

GroupSeen == lastGroup.ids # << >>

PairedInGroup ==
  {lastGroup.chosen[k].a : k \in 1..Len(lastGroup.chosen)}
  \cup {lastGroup.chosen[k].b : k \in 1..Len(lastGroup.chosen)}

AllPairedInside ==
  /\ 2 * Len(lastGroup.chosen) = Len(lastGroup.ids)
  /\ PairedInGroup = Range(lastGroup.ids)
  /\ lastGroup.downfloated = << >>

\* C27 as stated: a group being processed (its own unpaired members plus the inbound
\* downfloaters) with an even number of competitors is paired completely inside the
\* group and none of its competitors is downfloated
C27_EvenGroupKeepsAll ==
  (GroupSeen /\ Len(lastGroup.ids) % 2 = 0) => AllPairedInside

\* C27 amended: the same when the search pass whose result pairBag returns stayed
\* within maxBacktrack steps
C27_EvenGroupKeepsAllWithinBudget ==
  (GroupSeen /\ Len(lastGroup.ids) % 2 = 0 /\ ~lastGroup.runExceeded) => AllPairedInside

\* a group of four with no rematch-free matching, paired inside the group
C27_Witness ==
  /\ Len(lastGroup.ids) = 4
  /\ ~CleanMatchingExists(Range(lastGroup.ids))
  /\ ~lastGroup.runExceeded
  /\ AllPairedInside

\* an even group made even by an inbound downfloater
C27_WitnessInbound ==
  /\ Len(lastGroup.ids) = 2
  /\ Position(lastGroup.ids[2]) < Position(lastGroup.ids[1])
  /\ ~lastGroup.runExceeded
  /\ AllPairedInside

RECURSIVE FewestRematches(_)
\* the smallest number of rematches over the ways of splitting S into pairs
FewestRematches(S) ==
  IF S = {} THEN 0
  ELSE LET x == CHOOSE id \in S : \A other \in S : id <= other
           costs == {(IF MetBefore(x, y) THEN 1 ELSE 0) + FewestRematches(S \ {x, y}) :
                       y \in S \ {x}}
       IN CHOOSE c \in costs : \A d \in costs : c <= d

\* C28: when a group has no rematch-free complete matching, the matching returned for
\* the group uses the smallest number of rematches that a complete matching of the
\* group could use
C28_FewestRematches ==
  (GroupSeen /\ AllPairedInside /\ ~CleanMatchingExists(Range(lastGroup.ids))) =>
    Cardinality(GroupRematches) = FewestRematches(Range(lastGroup.ids))

\* a group with no rematch-free matching that got the fewest rematches possible
C28_WitnessFewest ==
  /\ Len(lastGroup.ids) = 4
  /\ AllPairedInside
  /\ ~CleanMatchingExists(Range(lastGroup.ids))
  /\ Cardinality(GroupRematches) = 1

(* ======================= properties of the slots after any calls ======================= *)

Participants(id) == {slotPlayerId(bracket[id].a), slotPlayerId(bracket[id].b)} \ {None}

\* a concrete player in the slot is the recorded winner of the feeder and one of its players
WinnerAndParticipant(slot, feeder) ==
  slot.kind = "seed" =>
    /\ HoldsWinnerOf(slot, feeder)
    /\ slot.playerId \in Participants(feeder)

\* C29: after generateSingleEliminationBracket and any sequence of applyResult calls,
\* every concrete player in a slot of a match of round r >= 2 is the recorded winner of
\* the earlier-round match wired to that slot and was a participant of that match, and
\* no player occupies both slots of one match
C29_SlotsHoldWiredWinners ==
  hpc = "bracket" =>
    \A id \in FedMatches :
      /\ WinnerAndParticipant(bracket[id].a, FeederA(id))
      /\ WinnerAndParticipant(bracket[id].b, FeederB(id))
      /\ (bracket[id].a.kind = "seed" /\ bracket[id].b.kind = "seed")
            => bracket[id].a.playerId # bracket[id].b.playerId

\* every match reported at most once and won by one of its players: the final holds
\* the two semifinal winners
C29_WitnessReportedOnce ==
  /\ hpc = "bracket"
  /\ input.entrants = 4
  /\ \A id \in DOMAIN bracket : calls[id] <= 1
  /\ bracket[makeMatchId(2, 1)].a.playerId = 1
  /\ bracket[makeMatchId(2, 1)].b.playerId = 2
  /\ C29_SlotsHoldWiredWinners

(* ======================= properties of the placement of the entrants ======================= *)

\* the seed numbers handed in are pairwise different (all are >= 1 by construction)
DistinctSeeds ==
  \A i, j \in 1..Len(input.seedsIn) :
    input.seedsIn[i].seed = input.seedsIn[j].seed => i = j

\* the number of round-1 slots that hold the player
RoundOneSlotsOf(playerId) ==
  Cardinality({id \in RoundOne : slotPlayerId(out.matches[id].a) = playerId})
  + Cardinality({id \in RoundOne : slotPlayerId(out.matches[id].b) = playerId})

\* the number of round-1 slots that hold a player
RoundOnePlayerSlots ==
  Cardinality({id \in RoundOne : out.matches[id].a.kind = "seed"})
  + Cardinality({id \in RoundOne : out.matches[id].b.kind = "seed"})

\* C30: a bracket generated from entrants with distinct seeds >= 1 holds every entrant
\* in exactly one slot of round 1, and the number of round-1 slots holding a player
\* equals meta.entrants
C30_EveryEntrantPlaced ==
  (Generated /\ DistinctSeeds) =>
    /\ \A i \in 1..Len(input.seedsIn) : RoundOneSlotsOf(input.seedsIn[i].playerId) = 1
    /\ RoundOnePlayerSlots = out.meta.entrants

\* three entrants with the seeds 2, 3, 1: each is in one round-1 slot of the bracket of 4
C30_WitnessPlaced ==
  /\ Generated
  /\ DistinctSeeds
  /\ SeedsOneToN
  /\ Len(input.seedsIn) = 3
  /\ input.seedsIn[1].seed = 2
  /\ RoundOnePlayerSlots = 3
  /\ \A i \in 1..3 : RoundOneSlotsOf(input.seedsIn[i].playerId) = 1

====
